---- MODULE Spec2Model ----
(***************************************************************************)
(* Chunked retrieval of JPL Horizons state vectors, as implemented by the  *)
(* acquisition scripts:                                                    *)
(*   NASA_Data/scripts/generate_ephemeris_juno.py          ("juno")        *)
(*   NASA_Data/scripts/generate_ephemeris_explorer_one.py  ("explorer_one")*)
(*   NASA_Data/scripts/generate_ephemeris_bennu.py         ("bennu")       *)
(*   Fictional Stars/scripts/build_catalogs.py             (http_get_json) *)
(*                                                                         *)
(* Units.  Datetimes are whole seconds since the query epoch.  A time text *)
(* is the tuple of its printed fields: <<minutes, seconds>> for the format *)
(* "%Y-%m-%d %H:%M:%S" and <<minutes>> for "%Y-%m-%d %H:%M".  Julian dates *)
(* are integers counted in units of 1e-10 day (the tolerance of the        *)
(* scripts); a service timestamp is a double, and doubles of the magnitude *)
(* of a Julian date (2^21..2^22) are 2^-31 = 4.66e-10 day apart, so every  *)
(* timestamp is a multiple of JD_ULP.  Sleeps are in milliseconds.         *)
(***************************************************************************)
EXTENDS Integers, Sequences, FiniteSets, TLC

VARIABLES
    script,       \* which script's horizons_vectors_chunked is running
    query,        \* its arguments: [start, stop: time text, step: [n, u]]
    cur,          \* the cursor: start_dt (juno), cur (explorer_one, bennu)
    stop_dt,      \* parsed stop time
    chunk_stop,   \* stop of the window being fetched
    win,          \* [s, e]: START_TIME / STOP_TIME of the request in flight
    allow_retry,  \* horizons_vectors_once's allow_retry argument (juno)
    i,            \* request_json's loop index
    last,         \* request_json's last / last_err
    attempt,      \* explorer_one's per-window attempt index
    all_t,        \* accumulated timestamps
    all_pv,       \* accumulated flattened vectors
    sig_any,      \* accumulated signature
    pc,           \* control location
    outcome,      \* what the call returned or raised
    log,          \* events visible outside: requests sent and sleeps
    fetched,      \* history: the parsed result of every successful window
    nodd,         \* history: responses so far that were not the exact grid
    nfail,        \* history: failed HTTP attempts so far (one streak a run)
    rq,           \* one call of request_json / http_get_json on its own
    interp,       \* one application of a range-error interpreter function
    grid,         \* one run of a main's loop over the major bodies
    parser,       \* one application of a sample parser to a block of rows
    iss           \* one run of the ISS propagation loop

\* the state of a scheduler run
sched == <<script, query, cur, stop_dt, chunk_stop, win, allow_retry, i, last,
           attempt, all_t, all_pv, sig_any, pc, outcome, log, fetched, nodd,
           nfail>>

\* the state of the stand-alone runs of the helper functions
aux == <<rq, interp, grid, parser, iss>>

vars == <<sched, aux>>

(***************************************************************************)
(* Bounds of the model.                                                    *)
(***************************************************************************)
\* Samples per call, kept small (the scripts set 2000, 2000 and 8900).
MAX_SAMPLES_PER_CALL == 3
\* Largest step count n of a step "n m".
MaxStepN == 2
\* Largest start/stop time of a query, in minutes.
MaxStopMinutes == 10
\* Longest query, in windows of max_span_s.
MaxWindows == 3
\* Most responses of one run that deviate from the exact grid.
MaxOdd == 1
\* Spacing of adjacent doubles at Julian-date magnitude, in units of 1e-10 day.
JD_ULP == 4

(***************************************************************************)
(* Program constants.                                                      *)
(***************************************************************************)
RETRIES == 5
\* BACKOFF_S = 1.8 (juno) and 2.0 (bennu), in ms
BACKOFF_S_JUNO == 1800
BACKOFF_S_BENNU == 2000
\* DELAY_BETWEEN_CALLS_S = 0.25 (juno) and 0.35 (bennu), in ms
DELAY_JUNO == 250
DELAY_BENNU == 350
\* the 1e-10 day tolerance of the merge and of the grid comparison
TOL == 1

None == [none |-> TRUE, dt |-> 0]
Some(d) == [none |-> FALSE, dt |-> d]

RECURSIVE Pow2(_)
Pow2(n) == IF n = 0 THEN 1 ELSE 2 * Pow2(n - 1)

Min(a, b) == IF a < b THEN a ELSE b

Last(s) == s[Len(s)]

(***************************************************************************)
(* Time texts.                                                             *)
(***************************************************************************)
\* datetime.strptime(s, "%Y-%m-%d %H:%M:%S")
parse_utcish(s) == s[1] * 60 + s[2]

\* dt.replace(microsecond=0).strftime("%Y-%m-%d %H:%M:%S")
fmt_utcish(dt) == <<dt \div 60, dt % 60>>

\* datetime.strptime(s, "%Y-%m-%d %H:%M")
parse_minutes(s) == s[1] * 60

\* dt.strftime("%Y-%m-%d %H:%M"): the seconds are not printed
_format_horizons_time(dt) == <<dt \div 60>>

\* What the service reads from a START_TIME / STOP_TIME text of either format.
ServiceTime(s) == IF Len(s) = 2 THEN s[1] * 60 + s[2] ELSE s[1] * 60

\* The Julian date (a double) the service prints for a whole second: whole
\* seconds are more than one double apart.
jd(dt) == dt * 2 * JD_ULP

(***************************************************************************)
(* Steps.                                                                  *)
(***************************************************************************)
StepError == -1

\* generate_ephemeris_juno.py step_seconds: day and minute units only
step_seconds_juno(step) ==
    IF step.u = "d" THEN step.n * 86400
    ELSE IF step.u \in {"m", "min"} THEN step.n * 60
    ELSE StepError

\* generate_ephemeris_explorer_one.py step_seconds: day, hour, minute
step_seconds_explorer(step) ==
    IF step.u = "d" THEN step.n * 86400
    ELSE IF step.u = "h" THEN step.n * 3600
    ELSE IF step.u \in {"m", "min"} THEN step.n * 60
    ELSE StepError

\* generate_ephemeris_bennu.py lines 270-280: only the one-letter units d, h
\* and m match the pattern; any other step is requested as it is.
step_sec_bennu(step) ==
    IF step.u = "d" THEN 86400 * step.n
    ELSE IF step.u = "h" THEN 3600 * step.n
    ELSE IF step.u = "m" THEN 60 * step.n
    ELSE StepError

\* The step of the grid the service samples for STEP_SIZE "n u".
ServiceStep(step) == step_seconds_explorer(step)

(***************************************************************************)
(* The remote service, as the scripts see it.                              *)
(***************************************************************************)
\* The six vector fields of the row the service prints for timestamp t; v
\* tells apart two answers that disagree on the vectors of the same instant.
RowVec(t, v) == [k \in 1..6 |-> <<t, v, k>>]

Row(t, v) == [jd |-> t, vec |-> RowVec(t, v)]

\* n rows, est seconds apart, the first at second t0.
RowsFrom(t0, n, est, v) == [j \in 1..n |-> Row(jd(t0 + (j - 1) * est), v)]

\* Number of grid samples of a request [a, b] at step est, the first at a.
GridCount(a, b, est) == IF b >= a THEN (b - a) \div est + 1 ELSE 0

\* Row spacing of the answers: the requested step, one minute for a step of 0.
RowStep(st) == IF st > 0 THEN st ELSE 60

\* Blocks the service may print between $$SOE and $$EOE for the request
\* [a, b] at step st: the exact grid, and answers that deviate from it.
Blocks(a, b, st) ==
    LET est == RowStep(st)
        n == GridCount(a, b, est)
        exact == RowsFrom(a, n, est, 0)
    IN  {[tag |-> "exact", rows |-> exact],
         [tag |-> "variant", rows |-> RowsFrom(a, n, est, 1)],
         [tag |-> "early", rows |-> RowsFrom(a - est, n + 1, est, 1)],
         [tag |-> "late", rows |-> RowsFrom(a + est, n - 1, est, 0)],
         [tag |-> "short", rows |-> RowsFrom(a, n - 1, est, 0)],
         [tag |-> "long", rows |-> RowsFrom(a, n + 1, est, 0)]}
        \cup (IF n >= 1
              THEN {[tag |-> "jitter_up",
                     rows |-> [exact EXCEPT ![1].jd = @ + JD_ULP]],
                    [tag |-> "jitter_down",
                     rows |-> [exact EXCEPT ![1].jd = @ - JD_ULP]]}
              ELSE {})

\* Diagnostic texts.  phrase tells which wording the text holds:
\*   "prior"    No ephemeris ... prior to A.D. 2011-AUG-05 17:18:06.0000 UT
\*   "after"    No ephemeris ... after A.D. 2025-SEP-17 00:00:00.0000 UT
\*   "earliest" earliest available date is 1950-Jan-01 00:00 (UT)
\*   "literal"  prior to A\.D\. \dddd-JAN-\dd \dd:\dd:\dd UT, backslashes and
\*              letters d spelled out (what juno's EARLIEST_RE accepts)
\*   "none"     no such wording
\* date is the disclosed limit (a whole second); wf tells whether the date is
\* spelled in the format the wording's parser expects.
LimitDates == {60, 180}
Messages ==
    {[phrase |-> "none", date |-> 0, wf |-> FALSE]}
    \cup [phrase : {"prior", "after", "earliest"}, date : LimitDates, wf : BOOLEAN]
    \cup {[phrase |-> "literal", date |-> 0, wf |-> FALSE]}

\* The texts the service sends during a run of a scheduler.
RunMessages == {m \in Messages : m.phrase \in {"none", "literal"} \/ (m.wf /\ m.date = 60)}

\* The "signature" object of a response.
EmptySig == [empty |-> TRUE]
ServiceSig(w) == [empty |-> FALSE, start |-> w.s, stop |-> w.e]

\* JSON payloads the service may answer to the request w at step step.
Payloads(w, step) ==
    [kind : {"error", "nomarkers"}, msg : RunMessages]
    \cup {[kind |-> "noresult"]}
    \cup {[kind |-> "block", tag |-> b.tag, rows |-> b.rows, sig |-> ServiceSig(w)] :
            b \in Blocks(ServiceTime(w.s), ServiceTime(w.e), ServiceStep(step))}

IsExact(j) == j.kind = "block" /\ j.tag = "exact"

\* Ways one HTTP attempt fails: requests.get raises (Timeout), raise_for_status
\* raises (HTTPError), r.json() raises (JSONDecodeError).
Timeout == [type |-> "Timeout", code |-> 0]
HTTPError(c) == [type |-> "HTTPError", code |-> c]
JSONDecodeError == [type |-> "JSONDecodeError", code |-> 0]
RunFailures == {Timeout, HTTPError(404)}

(***************************************************************************)
(* Range-error interpreter.                                                *)
(***************************************************************************)
\* juno parse_earliest_from_error.  EARLIEST_RE is a raw string with doubled
\* backslashes, so it searches for literal backslashes and letters d: it
\* finds nothing in any wording of the service, and for the one text it does
\* accept int("\\dddd") raises.  The + timedelta_seconds(1) is never reached.
parse_earliest_from_error_juno(err) ==
    IF err.phrase # "literal"
    THEN [raises |-> FALSE, val |-> None]
    ELSE [raises |-> TRUE, val |-> None]

\* bennu parse_earliest_from_error: the date after "earliest available date
\* is", parsed with "%Y-%b-%d %H:%M"; None when strptime raises.
parse_earliest_from_error_bennu(msg) ==
    IF msg.phrase # "earliest" THEN None
    ELSE IF msg.wf THEN Some(msg.date)
    ELSE None

\* juno _parse_horizons_ad_time: the module imports the class datetime, so
\* datetime.datetime raises AttributeError, which except Exception turns
\* into None for every text.
_parse_horizons_ad_time_juno(text) == None

\* juno _format_horizons_time: "%Y-%b-%d %H:%M:%S"
_format_horizons_time_juno(dt) == <<dt \div 60, dt % 60>>

\* juno _maybe_clip_to_horizons_limits: (new_start, new_stop)
_maybe_clip_to_horizons_limits(err_text, start_time, stop_time) ==
    LET m1 == err_text.phrase = "prior" /\ err_text.wf
        m2 == err_text.phrase = "after" /\ err_text.wf
        dt == _parse_horizons_ad_time_juno(err_text)
    IN  IF m1 /\ ~dt.none
        THEN [s |-> _format_horizons_time_juno(dt.dt + 1), e |-> stop_time]
        ELSE IF m2 /\ ~dt.none
        THEN [s |-> start_time, e |-> _format_horizons_time_juno(dt.dt - 1)]
        ELSE [s |-> start_time, e |-> stop_time]

(***************************************************************************)
(* request_json and http_get_json: what one failed attempt does.           *)
(* The result tells whether the loop goes on (again), the next index, the  *)
(* sleep taken (0: none) and the error raised when it does not go on.      *)
(***************************************************************************)
RuntimeError(what, detail) == [type |-> "RuntimeError", what |-> what, detail |-> detail]

\* A request that gives up at the first failed attempt.
request_json_no_retry(ix, e) ==
    [again |-> FALSE, i |-> ix, sleep |-> 0, last |-> e,
     err |-> RuntimeError("Horizons request failed", e)]

\* A retry loop that allows one attempt more than RETRIES.
request_json_extra_attempt(ix, e) ==
    IF ix = RETRIES
    THEN [again |-> FALSE, i |-> ix, sleep |-> 0, last |-> e,
          err |-> RuntimeError("Horizons request failed", e)]
    ELSE [again |-> TRUE, i |-> ix + 1, sleep |-> BACKOFF_S_JUNO * Pow2(ix),
          last |-> e, err |-> None]

\* juno request_json, the except branch for attempt i failing with e
request_json_juno(ix, e) ==
    IF ix = RETRIES - 1
    THEN [again |-> FALSE, i |-> ix, sleep |-> 0, last |-> e,
          err |-> RuntimeError("Horizons request failed", e)]
    ELSE [again |-> TRUE, i |-> ix + 1, sleep |-> BACKOFF_S_JUNO * Pow2(ix),
          last |-> e, err |-> None]

\* bennu request_json: sleeps after every failure, the last one included
request_json_bennu(ix, e) ==
    IF ix = RETRIES - 1
    THEN [again |-> FALSE, i |-> ix, sleep |-> BACKOFF_S_BENNU * (ix + 1),
          last |-> e, err |-> RuntimeError("Horizons request failed after retries", e)]
    ELSE [again |-> TRUE, i |-> ix + 1, sleep |-> BACKOFF_S_BENNU * (ix + 1),
          last |-> e, err |-> None]

\* build_catalogs: HTTP_RETRIES, the default of CATALOG_HTTP_RETRIES
HTTP_RETRIES == 6

\* random.random() * 2.0 lies in [0, 2): its ends, in ms
Jitters == {0, 1999}

\* build_catalogs _sleep_backoff: min(60.0, 2 ** attempt + jitter), in ms
_sleep_backoff(att, jitter) == Min(60000, Pow2(att) * 1000 + jitter)

\* build_catalogs http_get_json, the except branches for attempt failing
\* with e: the listed HTTP codes, TimeoutError and URLError are retried; any
\* other HTTPError is raised again, and an error of json.loads is not caught.
http_get_json(att, last_err, e, jitter) ==
    IF (e.type = "HTTPError" /\ e.code \in {429, 500, 502, 503, 504}) \/ e.type = "Timeout"
    THEN [again |-> att + 1 < HTTP_RETRIES, i |-> att + 1,
          sleep |-> _sleep_backoff(att, jitter), last |-> e,
          err |-> RuntimeError("HTTP fetch failed after attempts", e)]
    ELSE [again |-> FALSE, i |-> att, sleep |-> 0, last |-> last_err, err |-> e]

(***************************************************************************)
(* Sample parser, on a block whose rows are all well formed.               *)
(***************************************************************************)
ParseFailure == RuntimeError("Parsed too few samples", None)

Flatten(rows) ==
    [j \in 1..(6 * Len(rows)) |-> rows[(j - 1) \div 6 + 1].vec[((j - 1) % 6) + 1]]

parse_vectors(block) ==
    LET t == [j \in 1..Len(block) |-> block[j].jd]
        pv == Flatten(block)
    IN  IF Len(t) < 2 \/ Len(pv) # Len(t) * 6
        THEN [ok |-> FALSE, err |-> ParseFailure]
        ELSE [ok |-> TRUE, t |-> t, pv |-> pv]

(***************************************************************************)
(* Merging a window's result into the accumulated series.                  *)
(***************************************************************************)
\* juno, explorer_one: while idx0 < len(t) and t[idx0] <= last + 1e-10
RECURSIVE LeadingDrop(_, _, _)
LeadingDrop(t, lastt, idx0) ==
    IF idx0 < Len(t) /\ t[idx0 + 1] <= lastt + TOL
    THEN LeadingDrop(t, lastt, idx0 + 1)
    ELSE idx0

\* s[k:] of a Python list
From(s, k) == SubSeq(s, k + 1, Len(s))

\* A merge that appends the whole result of the window.
merge_append_all(at, apv, sa, t, pv, sig) ==
    [t |-> at \o t, pv |-> apv \o pv, sig |-> IF sa = EmptySig THEN sig ELSE sa]

\* A merge that drops the leading timestamps and keeps every vector value.
merge_drop_times_only(at, apv, sa, t, pv, sig) ==
    IF at = <<>>
    THEN [t |-> t, pv |-> pv, sig |-> IF sa = EmptySig THEN sig ELSE sa]
    ELSE [t |-> at \o From(t, LeadingDrop(t, Last(at), 0)), pv |-> apv \o pv, sig |-> sa]

\* juno / explorer_one merge: (all_t, all_pv, sig_any) after a window
merge_juno(at, apv, sa, t, pv, sig) ==
    IF at = <<>>
    THEN [t |-> t, pv |-> pv, sig |-> IF sa = EmptySig THEN sig ELSE sa]
    ELSE LET idx0 == LeadingDrop(t, Last(at), 0)
         IN  IF idx0 < Len(t)
             THEN [t |-> at \o From(t, idx0), pv |-> apv \o From(pv, idx0 * 6), sig |-> sa]
             ELSE [t |-> at, pv |-> apv, sig |-> sa]

\* if len(all_t) < 2 or len(all_pv) != len(all_t) * 6: raise ... return
final_check(at, apv, sa) ==
    IF Len(at) < 2 \/ Len(apv) # Len(at) * 6
    THEN [kind |-> "raised", err |-> RuntimeError("Chunked parse produced invalid output", None)]
    ELSE [kind |-> "returned", t |-> at, pv |-> apv, sig |-> sa]

Raised(e) == [kind |-> "raised", err |-> e]
Running == [kind |-> "running"]

(***************************************************************************)
(* Queries and the initial state: the call has been made, nothing ran.     *)
(***************************************************************************)
Scripts == {"juno", "explorer_one", "bennu"}

Steps ==
    [n : 0..MaxStepN, u : {"m"}]
    \cup {[n |-> 1, u |-> "h"], [n |-> 1, u |-> "d"], [n |-> 1, u |-> "min"]}

\* A time of a query as the script's text format spells it.
TimeText(sc, minutes) == IF sc = "bennu" THEN <<minutes>> ELSE <<minutes, 0>>

\* The queries of a run: start at minute 0 or 1, stop up to MaxStopMinutes,
\* and no longer than MaxWindows windows.
SpanOf(step) == ServiceStep(step) * (MAX_SAMPLES_PER_CALL - 1)

Queries(sc) ==
    {[start |-> TimeText(sc, a), stop |-> TimeText(sc, b), step |-> st] :
        a \in 0..1, b \in 0..MaxStopMinutes, st \in Steps}

InWindows(q) ==
    q.step.n = 0
    \/ ServiceTime(q.stop) - ServiceTime(q.start) <= MaxWindows * SpanOf(q.step)

NoMsg == [phrase |-> "none", date |-> 0, wf |-> FALSE]
Event(ev, w, out, msg, ms) ==
    [ev |-> ev, s |-> w.s, e |-> w.e, out |-> out, msg |-> msg, ms |-> ms]
\* a request for window w was sent and failed ("fail") or was answered
FailEvent(w) == Event("req", w, "fail", NoMsg, 0)
ReqEvent(w, j) ==
    Event("req", w, IF j.kind = "block" THEN j.tag ELSE j.kind,
          IF j.kind \in {"error", "nomarkers"} THEN j.msg ELSE NoMsg, 0)
SleepEvent(ms) == Event("sleep", [s |-> <<>>, e |-> <<>>], "", NoMsg, ms)

NoWin == [s |-> <<>>, e |-> <<>>]

RqIdle == [pc |-> "idle"]
InterpIdle == [pc |-> "idle"]
GridIdle == [pc |-> "idle"]
ParserIdle == [pc |-> "idle"]
IssIdle == [pc |-> "idle"]

Init ==
    /\ script \in Scripts
    /\ query \in {q \in Queries(script) : InWindows(q)}
    /\ cur = 0
    /\ stop_dt = 0
    /\ chunk_stop = 0
    /\ win = NoWin
    /\ allow_retry = TRUE
    /\ i = 0
    /\ last = None
    /\ attempt = 0
    /\ all_t = <<>>
    /\ all_pv = <<>>
    /\ sig_any = EmptySig
    /\ pc = "start"
    /\ outcome = Running
    /\ log = <<>>
    /\ fetched = <<>>
    /\ nodd = 0
    /\ nfail = 0
    /\ rq = RqIdle
    /\ interp = InterpIdle
    /\ grid = GridIdle
    /\ parser = ParserIdle
    /\ iss = IssIdle

(***************************************************************************)
(* juno: horizons_vectors_once and horizons_vectors_chunked.               *)
(***************************************************************************)
StartTooEarly(earliest_dt, msg) ==
    [type |-> "StartTooEarly", what |-> "", detail |-> msg, earliest_dt |-> earliest_dt]

\* A handler that asks again whenever a retry is allowed.
missing_markers_retry_always(msg, w, retry) ==
    LET clip == _maybe_clip_to_horizons_limits(msg, w.s, w.e)
    IN  IF retry
        THEN [do |-> "recurse", win |-> clip]
        ELSE [do |-> "raise", err |-> RuntimeError("Missing $$SOE/$$EOE", msg)]

\* Lines 301-308, except RuntimeError: extract_block found no markers in the
\* result text msg of the request w.
missing_markers(msg, w, retry) ==
    LET clip == _maybe_clip_to_horizons_limits(msg, w.s, w.e)
    IN  IF retry /\ (clip.s # w.s \/ clip.e # w.e)
        THEN [do |-> "recurse", win |-> clip]
        ELSE [do |-> "raise", err |-> RuntimeError("Missing $$SOE/$$EOE", msg)]

\* horizons_vectors_once once request_json has returned j, for the request w:
\* raise, return (t, pv, sig), or call itself with the clipped window.
once_juno(j, w, retry) ==
    CASE j.kind = "error" ->
            LET earliest == parse_earliest_from_error_juno(j.msg)
            IN  IF earliest.raises
                THEN [do |-> "raise", err |-> [type |-> "ValueError", what |-> "int()", detail |-> j.msg]]
                ELSE IF ~earliest.val.none
                THEN [do |-> "raise", err |-> StartTooEarly(earliest.val.dt, j.msg)]
                ELSE [do |-> "raise", err |-> RuntimeError("error", j.msg)]
      [] j.kind = "noresult" ->
            [do |-> "raise", err |-> RuntimeError("Missing result field", None)]
      [] j.kind = "nomarkers" ->
            missing_markers(j.msg, w, retry)
      [] j.kind = "block" ->
            LET p == parse_vectors(j.rows)
            IN  IF ~p.ok
                THEN [do |-> "raise", err |-> p.err]
                ELSE [do |-> "return", t |-> p.t, pv |-> p.pv, sig |-> j.sig]

\* step_s and max_span_s of the running call
step_s == IF script = "juno" THEN step_seconds_juno(query.step)
          ELSE step_seconds_explorer(query.step)
max_span_s == step_s * (MAX_SAMPLES_PER_CALL - 1)

\* Lines 320-328: step_seconds may raise; parse the times; empty buffers.
JunoStart ==
    /\ script = "juno" /\ pc = "start"
    /\ IF step_s = StepError
       THEN /\ outcome' = Raised([type |-> "ValueError", what |-> "Unsupported STEP_SIZE unit", detail |-> None])
            /\ pc' = "done"
            /\ UNCHANGED <<cur, stop_dt>>
       ELSE /\ cur' = parse_utcish(query.start)
            /\ stop_dt' = parse_utcish(query.stop)
            /\ pc' = "loop"
            /\ UNCHANGED outcome
    /\ UNCHANGED <<aux, script, query, chunk_stop, win, allow_retry, i, last, attempt,
                   all_t, all_pv, sig_any, log, fetched, nodd, nfail>>

\* A window stop that is not clamped to the query stop.
chunk_stop_unclamped(start_dt, stop, span) == start_dt + span

\* Lines 331-333: the stop of the window that starts at the cursor.
chunk_stop_juno(start_dt, stop, span) == Min(start_dt + span, stop)

\* Lines 330-336 and 365-368: the loop test; a new window, or the final check.
JunoLoop ==
    /\ script = "juno" /\ pc = "loop"
    /\ IF cur < stop_dt
       THEN /\ chunk_stop' = chunk_stop_juno(cur, stop_dt, max_span_s)
            /\ win' = [s |-> fmt_utcish(cur), e |-> fmt_utcish(chunk_stop')]
            /\ allow_retry' = TRUE
            /\ i' = 0
            /\ last' = None
            /\ pc' = "http"
            /\ UNCHANGED outcome
       ELSE /\ outcome' = final_check(all_t, all_pv, sig_any)
            /\ pc' = "done"
            /\ UNCHANGED <<chunk_stop, win, allow_retry, i, last>>
    /\ UNCHANGED <<aux, script, query, cur, stop_dt, attempt, all_t, all_pv, sig_any,
                   log, fetched, nodd, nfail>>

\* One attempt of request_json fails with e (lines 144-159).
JunoAttemptFail(e) ==
    /\ script = "juno" /\ pc = "http"
    /\ nfail = 0 \/ i > 0
    /\ LET r == request_json_juno(i, e)
       IN  /\ i' = r.i
           /\ last' = r.last
           /\ log' = IF r.sleep > 0
                     THEN log \o <<FailEvent(win), SleepEvent(r.sleep)>>
                     ELSE Append(log, FailEvent(win))
           /\ IF r.again
              THEN UNCHANGED <<pc, outcome>>
              ELSE pc' = "done" /\ outcome' = Raised(r.err)
    /\ nfail' = nfail + 1
    /\ UNCHANGED <<aux, script, query, cur, stop_dt, chunk_stop, win, allow_retry,
                   attempt, all_t, all_pv, sig_any, fetched, nodd>>

\* One attempt of request_json returns j; the rest of horizons_vectors_once
\* (lines 290-316) and of the loop body (lines 340-363) follows.
JunoAttemptOk(j) ==
    /\ script = "juno" /\ pc = "http"
    /\ IsExact(j) \/ nodd < MaxOdd
    /\ nodd' = IF IsExact(j) THEN nodd ELSE nodd + 1
    /\ LET r == once_juno(j, win, allow_retry)
       IN  CASE r.do = "recurse" ->
                  /\ win' = r.win
                  /\ allow_retry' = FALSE
                  /\ i' = 0
                  /\ last' = None
                  /\ log' = Append(log, ReqEvent(win, j))
                  /\ UNCHANGED <<cur, all_t, all_pv, sig_any, pc, outcome, fetched>>
             [] r.do = "raise" /\ r.err.type = "StartTooEarly" ->
                  /\ log' = Append(log, ReqEvent(win, j))
                  /\ IF r.err.earliest_dt >= stop_dt
                     THEN /\ outcome' = Raised(RuntimeError("error", r.err.detail))
                          /\ pc' = "done"
                          /\ UNCHANGED cur
                     ELSE /\ cur' = r.err.earliest_dt
                          /\ pc' = "loop"
                          /\ UNCHANGED outcome
                  /\ UNCHANGED <<win, allow_retry, i, last, all_t, all_pv, sig_any, fetched>>
             [] r.do = "raise" /\ r.err.type # "StartTooEarly" ->
                  /\ log' = Append(log, ReqEvent(win, j))
                  /\ outcome' = Raised(r.err)
                  /\ pc' = "done"
                  /\ UNCHANGED <<cur, win, allow_retry, i, last, all_t, all_pv, sig_any, fetched>>
             [] r.do = "return" ->
                  LET m == merge_juno(all_t, all_pv, sig_any, r.t, r.pv, r.sig)
                  IN  /\ all_t' = m.t
                      /\ all_pv' = m.pv
                      /\ sig_any' = m.sig
                      /\ fetched' = Append(fetched, [s |-> win.s, e |-> win.e, t |-> r.t, pv |-> r.pv])
                      /\ log' = log \o <<ReqEvent(win, j), SleepEvent(DELAY_JUNO)>>
                      /\ IF chunk_stop = cur
                         THEN /\ outcome' = final_check(m.t, m.pv, m.sig)
                              /\ pc' = "done"
                              /\ UNCHANGED cur
                         ELSE /\ cur' = chunk_stop
                              /\ pc' = "loop"
                              /\ UNCHANGED outcome
                      /\ i' = 0
                      /\ last' = None
                      /\ UNCHANGED <<win, allow_retry>>
    /\ UNCHANGED <<aux, script, query, stop_dt, chunk_stop, attempt, nfail>>

(***************************************************************************)
(* explorer_one: horizons_vectors_once and horizons_vectors_chunked.       *)
(***************************************************************************)
\* for attempt in range(4)
EXPLORER_ATTEMPTS == 4
\* time.sleep(2 * (attempt + 1)), in ms
EXPLORER_SLEEP == 2000

\* horizons_vectors_once after r.json() returned j (lines 199-208)
once_explorer(j) ==
    CASE j.kind \in {"error", "noresult"} ->
            [do |-> "raise", err |-> RuntimeError("Horizons response missing 'result' field", None)]
      [] j.kind = "nomarkers" ->
            [do |-> "raise", err |-> RuntimeError("Could not locate $$SOE/$$EOE block", None)]
      [] j.kind = "block" ->
            LET p == parse_vectors(j.rows)
            IN  IF ~p.ok
                THEN [do |-> "raise", err |-> p.err]
                ELSE [do |-> "return", t |-> p.t, pv |-> p.pv, sig |-> j.sig]

\* Lines 212-222.
ExplorerStart ==
    /\ script = "explorer_one" /\ pc = "start"
    /\ IF step_s = StepError
       THEN /\ outcome' = Raised([type |-> "ValueError", what |-> "Unsupported STEP_SIZE unit", detail |-> None])
            /\ pc' = "done"
            /\ UNCHANGED <<cur, stop_dt>>
       ELSE /\ cur' = parse_utcish(query.start)
            /\ stop_dt' = parse_utcish(query.stop)
            /\ pc' = "loop"
            /\ UNCHANGED outcome
    /\ UNCHANGED <<aux, script, query, chunk_stop, win, allow_retry, i, last, attempt,
                   all_t, all_pv, sig_any, log, fetched, nodd, nfail>>

\* Lines 223-229 and 256-258.
ExplorerLoop ==
    /\ script = "explorer_one" /\ pc = "loop"
    /\ IF cur < stop_dt
       THEN /\ chunk_stop' = Min(cur + max_span_s, stop_dt)
            /\ win' = [s |-> fmt_utcish(cur), e |-> fmt_utcish(chunk_stop')]
            /\ attempt' = 0
            /\ pc' = "http"
            /\ UNCHANGED outcome
       ELSE /\ outcome' = final_check(all_t, all_pv, sig_any)
            /\ pc' = "done"
            /\ UNCHANGED <<chunk_stop, win, attempt>>
    /\ UNCHANGED <<aux, script, query, cur, stop_dt, allow_retry, i, last, all_t,
                   all_pv, sig_any, log, fetched, nodd, nfail>>

\* except Exception as ex (lines 236-239): the attempt raised err
explorer_except(att, err) ==
    IF att = EXPLORER_ATTEMPTS - 1
    THEN [again |-> FALSE, attempt |-> att, sleep |-> 0, err |-> err]
    ELSE [again |-> TRUE, attempt |-> att + 1, sleep |-> EXPLORER_SLEEP * (att + 1), err |-> err]

\* One call of horizons_vectors_once inside the retry loop: the request
\* raises e (requests.get, raise_for_status, r.json()).
ExplorerAttemptFail(e) ==
    /\ script = "explorer_one" /\ pc = "http"
    /\ nfail = 0 \/ attempt > 0
    /\ nfail' = nfail + 1
    /\ LET r == explorer_except(attempt, e)
       IN  /\ attempt' = r.attempt
           /\ log' = IF r.sleep > 0
                     THEN log \o <<FailEvent(win), SleepEvent(r.sleep)>>
                     ELSE Append(log, FailEvent(win))
           /\ IF r.again
              THEN UNCHANGED <<pc, outcome>>
              ELSE pc' = "done" /\ outcome' = Raised(r.err)
    /\ UNCHANGED <<aux, script, query, cur, stop_dt, chunk_stop, win, allow_retry, i,
                   last, all_t, all_pv, sig_any, fetched, nodd>>

\* The request is answered with j: horizons_vectors_once raises or returns,
\* then the rest of the loop body (lines 241-254).
ExplorerAttemptOk(j) ==
    /\ script = "explorer_one" /\ pc = "http"
    /\ IsExact(j) \/ nodd < MaxOdd
    /\ nodd' = IF IsExact(j) THEN nodd ELSE nodd + 1
    /\ LET r == once_explorer(j)
       IN  IF r.do = "raise"
           THEN LET x == explorer_except(attempt, r.err)
                IN  /\ attempt' = x.attempt
                    /\ log' = IF x.sleep > 0
                              THEN log \o <<ReqEvent(win, j), SleepEvent(x.sleep)>>
                              ELSE Append(log, ReqEvent(win, j))
                    /\ IF x.again
                       THEN UNCHANGED <<pc, outcome>>
                       ELSE pc' = "done" /\ outcome' = Raised(x.err)
                    /\ UNCHANGED <<cur, all_t, all_pv, sig_any, fetched>>
           ELSE LET m == merge_juno(all_t, all_pv, sig_any, r.t, r.pv, r.sig)
                IN  /\ all_t' = m.t
                    /\ all_pv' = m.pv
                    /\ sig_any' = m.sig
                    /\ fetched' = Append(fetched, [s |-> win.s, e |-> win.e, t |-> r.t, pv |-> r.pv])
                    /\ log' = Append(log, ReqEvent(win, j))
                    /\ cur' = chunk_stop
                    /\ attempt' = 0
                    /\ pc' = "loop"
                    /\ UNCHANGED outcome
    /\ UNCHANGED <<aux, script, query, stop_dt, chunk_stop, win, allow_retry, i, last, nfail>>

(***************************************************************************)
(* bennu: horizons_vectors and horizons_vectors_chunked.                   *)
(***************************************************************************)
\* horizons_vectors after request_json returned data (lines 242-260); the
\* signature is built from the request's own arguments.
horizons_vectors_bennu(data, w) ==
    CASE data.kind \in {"error", "noresult"} ->
            [do |-> "raise", err |-> RuntimeError("Unexpected Horizons response (no 'result')", None)]
      [] data.kind = "nomarkers" ->
            [do |-> "raise", err |-> RuntimeError("Missing SOE/EOE markers", None)]
      [] data.kind = "block" ->
            LET p == parse_vectors(data.rows)
            IN  IF ~p.ok
                THEN [do |-> "raise", err |-> p.err]
                ELSE [do |-> "return", t |-> p.t, pv |-> p.pv,
                      sig |-> [empty |-> FALSE, start |-> w.s, stop |-> w.e]]

\* Lines 304-310: merge with de-dup at boundary
merge_bennu(t_all, pv_all, t, pv) ==
    IF t_all # <<>> /\ t # <<>>
       /\ (IF t[1] >= Last(t_all) THEN t[1] - Last(t_all) ELSE Last(t_all) - t[1]) < TOL
    THEN [t |-> t_all \o From(t, 1), pv |-> pv_all \o From(pv, 6)]
    ELSE [t |-> t_all \o t, pv |-> pv_all \o pv]

\* Lines 266-293: parse the times and the step; one direct call when the
\* step is not understood or the samples fit one call; else the chunk loop.
BennuStart ==
    /\ script = "bennu" /\ pc = "start"
    /\ LET start_dt == parse_minutes(query.start)
           stop == parse_minutes(query.stop)
           step_sec == step_sec_bennu(query.step)
       IN  /\ cur' = start_dt
           /\ stop_dt' = stop
           /\ IF step_sec = StepError
              THEN /\ pc' = "direct"
                   /\ win' = [s |-> query.start, e |-> query.stop]
                   /\ log' = Append(log, SleepEvent(DELAY_BENNU))
                   /\ UNCHANGED outcome
              ELSE IF step_sec = 0
              THEN /\ pc' = "done"
                   /\ outcome' = Raised([type |-> "ZeroDivisionError", what |-> "float floor division by zero", detail |-> None])
                   /\ UNCHANGED <<win, log>>
              ELSE IF (stop - start_dt) \div step_sec + 1 <= MAX_SAMPLES_PER_CALL
              THEN /\ pc' = "direct"
                   /\ win' = [s |-> query.start, e |-> query.stop]
                   /\ log' = Append(log, SleepEvent(DELAY_BENNU))
                   /\ UNCHANGED outcome
              ELSE /\ pc' = "loop"
                   /\ UNCHANGED <<win, log, outcome>>
    /\ i' = 0
    /\ UNCHANGED <<aux, script, query, chunk_stop, allow_retry, last, attempt, all_t,
                   all_pv, sig_any, fetched, nodd, nfail>>

\* Lines 294-302 and 313: the loop test; the next call, or the return.
BennuLoop ==
    /\ script = "bennu" /\ pc = "loop"
    /\ IF cur < stop_dt
       THEN /\ chunk_stop' = Min(stop_dt, cur + (MAX_SAMPLES_PER_CALL - 1) * step_sec_bennu(query.step))
            /\ win' = [s |-> _format_horizons_time(cur), e |-> _format_horizons_time(chunk_stop')]
            /\ i' = 0
            /\ last' = None
            /\ log' = Append(log, SleepEvent(DELAY_BENNU))
            /\ pc' = "http"
            /\ UNCHANGED outcome
       ELSE /\ outcome' = [kind |-> "returned", t |-> all_t, pv |-> all_pv, sig |-> sig_any]
            /\ pc' = "done"
            /\ UNCHANGED <<chunk_stop, win, i, last, log>>
    /\ UNCHANGED <<aux, script, query, cur, stop_dt, allow_retry, attempt, all_t,
                   all_pv, sig_any, fetched, nodd, nfail>>

\* One attempt of request_json fails with e (lines 113-121).
BennuAttemptFail(e) ==
    /\ script = "bennu" /\ pc \in {"http", "direct"}
    /\ nfail = 0 \/ i > 0
    /\ nfail' = nfail + 1
    /\ LET r == request_json_bennu(i, e)
       IN  /\ i' = r.i
           /\ last' = r.last
           /\ log' = log \o <<FailEvent(win), SleepEvent(r.sleep)>>
           /\ IF r.again
              THEN UNCHANGED <<pc, outcome>>
              ELSE pc' = "done" /\ outcome' = Raised(r.err)
    /\ UNCHANGED <<aux, script, query, cur, stop_dt, chunk_stop, win, allow_retry,
                   attempt, all_t, all_pv, sig_any, fetched, nodd>>

\* One attempt of request_json returns data; the rest of horizons_vectors
\* and, in the loop, of the loop body (lines 304-311).
BennuAttemptOk(data) ==
    /\ script = "bennu" /\ pc \in {"http", "direct"}
    /\ IsExact(data) \/ nodd < MaxOdd
    /\ nodd' = IF IsExact(data) THEN nodd ELSE nodd + 1
    /\ LET r == horizons_vectors_bennu(data, win)
       IN  /\ log' = Append(log, ReqEvent(win, data))
           /\ IF r.do = "raise"
              THEN /\ outcome' = Raised(r.err)
                   /\ pc' = "done"
                   /\ UNCHANGED <<cur, all_t, all_pv, sig_any, fetched>>
              ELSE /\ fetched' = Append(fetched, [s |-> win.s, e |-> win.e, t |-> r.t, pv |-> r.pv])
                   /\ IF pc = "direct"
                      THEN /\ outcome' = [kind |-> "returned", t |-> r.t, pv |-> r.pv, sig |-> r.sig]
                           /\ pc' = "done"
                           /\ UNCHANGED <<cur, all_t, all_pv, sig_any>>
                      ELSE LET m == merge_bennu(all_t, all_pv, r.t, r.pv)
                           IN  /\ all_t' = m.t
                               /\ all_pv' = m.pv
                               /\ sig_any' = r.sig
                               /\ cur' = chunk_stop
                               /\ pc' = "loop"
                               /\ UNCHANGED outcome
    /\ i' = 0
    /\ last' = None
    /\ UNCHANGED <<aux, script, query, stop_dt, chunk_stop, win, allow_retry, attempt, nfail>>

JunoFail == \E e \in RunFailures : JunoAttemptFail(e)

JunoOk ==
    /\ script = "juno" /\ pc = "http"
    /\ \E j \in Payloads(win, query.step) : JunoAttemptOk(j)

ExplorerFail == \E e \in RunFailures : ExplorerAttemptFail(e)

ExplorerOk ==
    /\ script = "explorer_one" /\ pc = "http"
    /\ \E j \in Payloads(win, query.step) : ExplorerAttemptOk(j)

BennuFail == \E e \in RunFailures : BennuAttemptFail(e)

BennuOk ==
    /\ script = "bennu" /\ pc \in {"http", "direct"}
    /\ \E data \in Payloads(win, query.step) : BennuAttemptOk(data)

Next ==
    \/ JunoStart
    \/ JunoLoop
    \/ JunoFail
    \/ JunoOk
    \/ ExplorerStart
    \/ ExplorerLoop
    \/ ExplorerFail
    \/ ExplorerOk
    \/ BennuStart
    \/ BennuLoop
    \/ BennuFail
    \/ BennuOk

Spec == Init /\ [][Next]_vars

(***************************************************************************)
(* Properties of a scheduler run.                                          *)
(***************************************************************************)
\* The requests of the run, in order (failed attempts included).
ReqLog == SelectSeq(log, LAMBDA ev : ev.ev = "req")

\* Every request so far failed or was answered with the exact grid.
AllExactOrFail ==
    \A k \in DOMAIN log : log[k].ev = "req" => log[k].out \in {"exact", "fail"}

\* Every request so far was answered with the exact grid of its window.
AllExact == \A k \in DOMAIN log : log[k].ev = "req" => log[k].out = "exact"

QStart == ServiceTime(query.start)
QStop == ServiceTime(query.stop)
QStep == ServiceStep(query.step)

\* The step text is one the running script understands, and is positive.
StepUnderstood ==
    CASE script = "juno" -> step_seconds_juno(query.step) > 0
      [] script = "explorer_one" -> step_seconds_explorer(query.step) > 0
      [] script = "bennu" -> step_sec_bennu(query.step) > 0

\* The grid of the whole range has more samples than one call may return.
NeedsChunks == QStep > 0 /\ GridCount(QStart, QStop, QStep) > MAX_SAMPLES_PER_CALL

\* What a single call over the whole range returns from an exact service.
SingleCall == parse_vectors(RowsFrom(QStart, GridCount(QStart, QStop, QStep), QStep, 0))

Returned == pc = "done" /\ outcome.kind = "returned"

\* C1: for a query that needs more than one sub-window, answered exactly
\* and without failures, the chunked call returns, and returns the series
\* (times and vectors, in order) of one unbounded call over the whole range.
C1_ChunkingTransparent ==
    (pc = "done" /\ StepUnderstood /\ NeedsChunks /\ AllExact)
        => /\ SingleCall.ok
           /\ outcome.kind = "returned"
           /\ outcome.t = SingleCall.t
           /\ outcome.pv = SingleCall.pv

\* The exact runs whose every window holds at least two grid samples do
\* return the series of the single call.
C1_WhenLastWindowHasTwo ==
    (pc = "done" /\ StepUnderstood /\ NeedsChunks /\ AllExact
     /\ \A k \in DOMAIN ReqLog :
            ServiceTime(ReqLog[k].e) - ServiceTime(ReqLog[k].s) >= QStep)
        => /\ outcome.kind = "returned"
           /\ outcome.t = SingleCall.t
           /\ outcome.pv = SingleCall.pv

\* Two timestamps are the same instant (within 1e-10 day).
Near(a, b) == (IF a >= b THEN a - b ELSE b - a) <= TOL

\* The six vector values of sample k of a flattened list.
VecAt(pv, k) == SubSeq(pv, 6 * (k - 1) + 1, 6 * k)

\* Windows n-1 and n were fetched one after the other and the result of the
\* later one starts at the instant the result of the earlier one ends with.
SharedBoundary(n) ==
    /\ n \in 2..Len(fetched)
    /\ Near(fetched[n].t[1], Last(fetched[n - 1].t))

ProperQuery == QStart < QStop /\ query.step.n > 0

FetchedCover ==
    /\ Len(fetched) > 0
    /\ ServiceTime(fetched[1].s) = QStart
    /\ ServiceTime(Last(fetched).e) = QStop
    /\ \A k \in 2..Len(fetched) : ServiceTime(fetched[k].s) = ServiceTime(fetched[k - 1].e)

\* C4: a call returns normally only when every sub-window from the query
\* start through the query stop was fetched; a loop that stops before the
\* cursor reaches stop raises.
C4_NoPartialSuccess == Returned => FetchedCover

\* C5: once a window whose stop does not lie beyond its start was fetched,
\* the scheduler (juno, explorer_one) has stopped with an error.
C5_NoProgressIsFatal ==
    (script \in {"juno", "explorer_one"}
     /\ \E k \in DOMAIN fetched : ServiceTime(fetched[k].e) <= ServiceTime(fetched[k].s))
        => pc = "done" /\ outcome.kind = "raised"

\* The window section 4.4 of the specification has the interpreter yield for
\* the rejected request w and the text msg: start one second after a
\* disclosed leading limit, stop one second before a disclosed trailing one.
CorrectedWindow(msg, w) ==
    IF msg.phrase = "prior" /\ msg.wf
    THEN [s |-> fmt_utcish(msg.date + 1), e |-> w.e]
    ELSE IF msg.phrase = "after" /\ msg.wf
    THEN [s |-> w.s, e |-> fmt_utcish(msg.date - 1)]
    ELSE [s |-> w.s, e |-> w.e]

WindowOf(ev) == [s |-> ev.s, e |-> ev.e]

\* Request k of the log is not itself the second request of a re-narrowing.
FirstRequest(k) == k = 1 \/ ReqLog[k - 1].out # "nomarkers"

ClipPhrases == {"prior", "after"}

\* C7: a response of juno's horizons_vectors_once without $$SOE/$$EOE whose
\* text holds no recognized boundary phrase leaves the window unchanged, is
\* the last request of the call, and surfaces the missing-marker error.
C7_NoMatchPath ==
    script = "juno" =>
        \A k \in DOMAIN ReqLog :
            (ReqLog[k].out = "nomarkers" /\ ReqLog[k].msg.phrase \notin ClipPhrases)
                => /\ _maybe_clip_to_horizons_limits(ReqLog[k].msg, ReqLog[k].s, ReqLog[k].e)
                          = WindowOf(ReqLog[k])
                   /\ k = Len(ReqLog)
                   /\ pc = "done"
                   /\ outcome = Raised(RuntimeError("Missing $$SOE/$$EOE", ReqLog[k].msg))

\* The second window of a juno run was answered without markers and without
\* a boundary phrase.
C7_Witness ==
    /\ script = "juno" /\ pc = "done"
    /\ Len(fetched) = 1
    /\ Last(ReqLog).out = "nomarkers"
    /\ Last(ReqLog).msg.phrase = "none"

(***************************************************************************)
(* No scheduler runs: the state of a stand-alone run of a helper function. *)
(***************************************************************************)
SchedIdle ==
    /\ script = "juno"
    /\ query = [start |-> <<0, 0>>, stop |-> <<0, 0>>, step |-> [n |-> 1, u |-> "m"]]
    /\ cur = 0
    /\ stop_dt = 0
    /\ chunk_stop = 0
    /\ win = NoWin
    /\ allow_retry = TRUE
    /\ i = 0
    /\ last = None
    /\ attempt = 0
    /\ all_t = <<>>
    /\ all_pv = <<>>
    /\ sig_any = EmptySig
    /\ pc = "idle"
    /\ outcome = Running
    /\ log = <<>>
    /\ fetched = <<>>
    /\ nodd = 0
    /\ nfail = 0

(***************************************************************************)
(* One request through a retry loop: request_json of juno and of bennu,    *)
(* http_get_json of build_catalogs.                                        *)
(***************************************************************************)
ReqFns == {"juno", "bennu", "http_get_json"}

\* Ways one attempt fails.
ReqFailures == {Timeout, HTTPError(503), HTTPError(429), HTTPError(404), JSONDecodeError}

OkResponse == [type |-> "ok", code |-> 200]

InitReq ==
    /\ SchedIdle
    /\ interp = InterpIdle
    /\ grid = GridIdle
    /\ parser = ParserIdle
    /\ iss = IssIdle
    /\ rq \in {[pc |-> "call", fn |-> f, i |-> 0, last |-> None, outs |-> <<>>,
                sleeps |-> <<>>, result |-> 0, err |-> None] : f \in ReqFns}

\* The attempt numbered rq.i raises e.
RqAttemptFail(e, jitter) ==
    /\ rq.pc = "call"
    /\ LET r == CASE rq.fn = "juno" -> request_json_juno(rq.i, e)
                  [] rq.fn = "bennu" -> request_json_bennu(rq.i, e)
                  [] rq.fn = "http_get_json" -> http_get_json(rq.i, rq.last, e, jitter)
       IN  rq' = [rq EXCEPT !.pc = IF r.again THEN "call" ELSE "raised",
                            !.i = r.i,
                            !.last = r.last,
                            !.outs = Append(@, e),
                            !.sleeps = IF r.sleep > 0 THEN Append(@, r.sleep) ELSE @,
                            !.err = IF r.again THEN None ELSE r.err]
    /\ UNCHANGED <<sched, interp, grid, parser, iss>>

\* The attempt numbered rq.i succeeds: return r.json() / json.loads(data).
RqAttemptOk ==
    /\ rq.pc = "call"
    /\ rq' = [rq EXCEPT !.pc = "returned",
                        !.outs = Append(@, OkResponse),
                        !.result = rq.i + 1]
    /\ UNCHANGED <<sched, interp, grid, parser, iss>>

RqFail ==
    \E e \in ReqFailures :
        \E jitter \in (IF rq.pc = "call" /\ rq.fn = "http_get_json" THEN Jitters ELSE {0}) :
            RqAttemptFail(e, jitter)

NextReq ==
    \/ RqFail
    \/ RqAttemptOk

SpecReq == InitReq /\ [][NextReq]_vars

\* C9: request_json makes at most RETRIES attempts, makes none after a
\* success and returns that first successful response, and raises only
\* after RETRIES failed attempts, with the error of the last attempt.
C9_RetryBudget ==
    rq.fn \in {"juno", "bennu"} =>
        /\ Len(rq.outs) <= RETRIES
        /\ \A k \in 1..(Len(rq.outs) - 1) : rq.outs[k] # OkResponse
        /\ (rq.pc = "call" => Len(rq.outs) < RETRIES /\ OkResponse \notin {rq.outs[k] : k \in DOMAIN rq.outs})
        /\ (rq.pc = "returned" => Last(rq.outs) = OkResponse /\ rq.result = Len(rq.outs))
        /\ (rq.pc = "raised" =>
               /\ Len(rq.outs) = RETRIES
               /\ \A k \in DOMAIN rq.outs : rq.outs[k] # OkResponse
               /\ rq.err.type = "RuntimeError"
               /\ rq.err.detail = rq.outs[RETRIES])

\* juno's request_json raised after attempts that failed in different ways.
C9_Witness ==
    /\ rq.fn = "juno" /\ rq.pc = "raised"
    /\ rq.outs[1] # rq.outs[RETRIES]

\* Timeout, HTTP 5xx, HTTP 429.
Transient(e) ==
    \/ e.type = "Timeout"
    \/ e.type = "HTTPError" /\ (e.code = 429 \/ (e.code >= 500 /\ e.code <= 599))

\* C10: an attempt that fails in a way that is not transient is the last
\* attempt of the request, and its error is the one raised.
C10_OnlyTransientRetried ==
    \A k \in DOMAIN rq.outs :
        (rq.outs[k] # OkResponse /\ ~Transient(rq.outs[k]))
            => /\ k = Len(rq.outs)
               /\ rq.pc = "raised"
               /\ rq.err = rq.outs[k]

(***************************************************************************)
(* One application of a range-error interpreter function to a text.        *)
(***************************************************************************)
InterpFns ==
    {"parse_earliest_from_error_bennu", "parse_earliest_from_error_juno",
     "_maybe_clip_to_horizons_limits"}

\* The requests a text may be an answer to.
InterpWindows == {[s |-> fmt_utcish(a), e |-> fmt_utcish(b)] : a \in {0, 120}, b \in {240, 300}}

InitInterp ==
    /\ SchedIdle
    /\ rq = RqIdle
    /\ grid = GridIdle
    /\ parser = ParserIdle
    /\ iss = IssIdle
    /\ interp \in {[pc |-> "given", fn |-> f, msg |-> m, w |-> w,
                    out |-> [kind |-> "pending", dt |-> 0, w |-> NoWin]] :
                       f \in InterpFns, m \in Messages, w \in InterpWindows}

ApplyParseEarliestBennu ==
    /\ interp.pc = "given" /\ interp.fn = "parse_earliest_from_error_bennu"
    /\ LET r == parse_earliest_from_error_bennu(interp.msg)
       IN  interp' = [interp EXCEPT !.pc = "applied",
                        !.out = [kind |-> IF r.none THEN "none" ELSE "date",
                                 dt |-> r.dt, w |-> NoWin]]
    /\ UNCHANGED <<sched, rq, grid, parser, iss>>

ApplyParseEarliestJuno ==
    /\ interp.pc = "given" /\ interp.fn = "parse_earliest_from_error_juno"
    /\ LET r == parse_earliest_from_error_juno(interp.msg)
       IN  interp' = [interp EXCEPT !.pc = "applied",
                        !.out = [kind |-> IF r.raises THEN "raised"
                                          ELSE IF r.val.none THEN "none" ELSE "date",
                                 dt |-> r.val.dt, w |-> NoWin]]
    /\ UNCHANGED <<sched, rq, grid, parser, iss>>

ApplyClipJuno ==
    /\ interp.pc = "given" /\ interp.fn = "_maybe_clip_to_horizons_limits"
    /\ LET r == _maybe_clip_to_horizons_limits(interp.msg, interp.w.s, interp.w.e)
       IN  interp' = [interp EXCEPT !.pc = "applied",
                        !.out = [kind |-> "window", dt |-> 0, w |-> r]]
    /\ UNCHANGED <<sched, rq, grid, parser, iss>>

NextInterp ==
    \/ ApplyParseEarliestBennu
    \/ ApplyParseEarliestJuno
    \/ ApplyClipJuno

SpecInterp == InitInterp /\ [][NextInterp]_vars

\* C8: from a text that discloses the limit D in a recognized wording, the
\* interpreter returns the boundary one second beyond it: D + 1 s from
\* parse_earliest_from_error (bennu: "earliest available date is D (UT)",
\* juno: "prior to A.D. D UT"), and from _maybe_clip_to_horizons_limits the
\* start D + 1 s for "prior to", the stop D - 1 s for "after".
C8_OneSecondBeyond ==
    (interp.pc = "applied" /\ interp.msg.wf) =>
        /\ (interp.fn = "parse_earliest_from_error_bennu" /\ interp.msg.phrase = "earliest")
              => interp.out.kind = "date" /\ interp.out.dt = interp.msg.date + 1
        /\ (interp.fn = "parse_earliest_from_error_juno" /\ interp.msg.phrase = "prior")
              => interp.out.kind = "date" /\ interp.out.dt = interp.msg.date + 1
        /\ (interp.fn = "_maybe_clip_to_horizons_limits" /\ interp.msg.phrase = "prior")
              => interp.out.w = [s |-> _format_horizons_time_juno(interp.msg.date + 1),
                                 e |-> interp.w.e]
        /\ (interp.fn = "_maybe_clip_to_horizons_limits" /\ interp.msg.phrase = "after")
              => interp.out.w = [s |-> interp.w.s,
                                 e |-> _format_horizons_time_juno(interp.msg.date - 1)]

(***************************************************************************)
(* Properties of errors, retries and pacing in a scheduler run.            *)
(***************************************************************************)
\* The tags of the blocks of Blocks.
BlockTags ==
    {"exact", "variant", "early", "late", "short", "long", "jitter_up", "jitter_down"}

\* The rows the service sent in the answered request ev of the run.
RowsOf(ev) ==
    (CHOOSE b \in Blocks(ServiceTime(ev.s), ServiceTime(ev.e), QStep) : b.tag = ev.out).rows

\* The answer to the request ev made the fetcher fail on its body: no
\* $$SOE/$$EOE markers, or fewer than 2 samples parsed.
ParseFailed(ev) ==
    \/ ev.out = "nomarkers"
    \/ ev.out \in BlockTags /\ ~parse_vectors(RowsOf(ev)).ok

\* C11: a request whose answer failed to parse is not followed by a request
\* for the same window (a re-request is for a corrected window only).
C11_NoBlindParseRetry ==
    ProperQuery =>
        \A k \in 1..(Len(ReqLog) - 1) :
            ParseFailed(ReqLog[k]) => WindowOf(ReqLog[k + 1]) # WindowOf(ReqLog[k])

\* The answer to the request ev makes the single-window fetcher raise.
PayloadRaises(ev) == ev.out \in {"error", "noresult", "nomarkers"} \/ ParseFailed(ev)

\* Request k of the log is where the single-window fetcher raised to the
\* scheduler: in juno and bennu the fetcher holds the retry loop of
\* request_json, so a failed attempt reaches the scheduler only as the last
\* of RETRIES; explorer_one's fetcher makes one attempt.
FetcherRaised(k) ==
    \/ PayloadRaises(ReqLog[k])
    \/ /\ ReqLog[k].out = "fail"
       /\ \/ script = "explorer_one"
          \/ /\ k >= RETRIES
             /\ \A m \in (k - RETRIES + 1)..k :
                    ReqLog[m].out = "fail" /\ WindowOf(ReqLog[m]) = WindowOf(ReqLog[k])

\* C12: once the single-window fetcher has raised, the scheduler sends no
\* further request and the call ends raising an error.
C12_ErrorContainment ==
    ProperQuery =>
        \A k \in DOMAIN ReqLog :
            FetcherRaised(k) => k = Len(ReqLog) /\ pc = "done" /\ outcome.kind = "raised"

\* The positions of the requests in the log.
ReqPositions == {k \in DOMAIN log : log[k].ev = "req"}

\* C13: between any two consecutive requests of a run the script sleeps.
C13_Pacing ==
    ProperQuery =>
        \A a \in ReqPositions : \A b \in ReqPositions :
            (a < b /\ \A c \in (a + 1)..(b - 1) : c \notin ReqPositions)
                => \E c \in (a + 1)..(b - 1) : log[c].ev = "sleep" /\ log[c].ms > 0

(***************************************************************************)
(* Properties of the delays of a retry loop.                               *)
(***************************************************************************)
\* C14: the delays slept after the failed attempts of one request never
\* decrease from one attempt to the next and never exceed 60 s.
C14_BackoffMonotoneBounded ==
    /\ \A k \in 1..(Len(rq.sleeps) - 1) : rq.sleeps[k] <= rq.sleeps[k + 1]
    /\ \A k \in DOMAIN rq.sleeps : rq.sleeps[k] <= 60000

(***************************************************************************)
(* Properties of the windows of a scheduler run.                           *)
(***************************************************************************)
\* max_span_seconds of the query, and the number of windows it is cut into.
QSpan == QStep * (MAX_SAMPLES_PER_CALL - 1)
NumWindows == IF QSpan > 0 /\ QStop > QStart THEN (QStop - QStart + QSpan - 1) \div QSpan ELSE 0

\* The last window of the query spans at least one step, so that the run
\* without failures returns a series.
LastWindowHasTwo == NumWindows >= 1 /\ (QStop - QStart) - (NumWindows - 1) * QSpan >= QStep

\* A query of 3 sub-windows was run to its end; the first attempt of
\* sub-window 2 failed, that was the only failure, and every answer was exact.
OneFailureInWindowTwo ==
    /\ pc = "done" /\ ProperQuery /\ StepUnderstood
    /\ NumWindows = 3 /\ LastWindowHasTwo
    /\ nfail = 1 /\ AllExactOrFail
    /\ Len(ReqLog) >= 2
    /\ ReqLog[1].out = "exact" /\ ReqLog[2].out = "fail"

\* C15: in such a run there is exactly one extra request, for sub-window 2,
\* no other window is requested twice, and the call returns the series of
\* the run without failures.
C15_TransientFailureInQuery ==
    OneFailureInWindowTwo =>
        /\ Len(ReqLog) = 4
        /\ WindowOf(ReqLog[3]) = WindowOf(ReqLog[2])
        /\ Cardinality({WindowOf(ReqLog[k]) : k \in {1, 2, 4}}) = 3
        /\ outcome.kind = "returned"
        /\ outcome.t = SingleCall.t
        /\ outcome.pv = SingleCall.pv

\* A juno run of that kind.
C15_Witness == OneFailureInWindowTwo /\ script = "juno"

\* The window of a logged request, in seconds.
WinStart(ev) == ServiceTime(ev.s)
WinStop(ev) == ServiceTime(ev.e)

\* C16: every window [s, e] handed to the single-window fetcher, for a
\* step the script resolves to a positive number of seconds, has
\* s <= e <= query stop and holds at most MAX_SAMPLES_PER_CALL grid
\* samples: (e - s) / step_seconds + 1 <= MAX_SAMPLES_PER_CALL, the
\* quotient counted in whole steps as the scripts count samples.
C16_WindowSizeBound ==
    StepUnderstood =>
        \A k \in DOMAIN ReqLog :
            /\ WinStart(ReqLog[k]) <= WinStop(ReqLog[k])
            /\ WinStop(ReqLog[k]) <= QStop
            /\ (WinStop(ReqLog[k]) - WinStart(ReqLog[k])) \div QStep + 1
                   <= MAX_SAMPLES_PER_CALL

\* The whole query fits in one call and its grid has at least two samples.
FitsOneCall ==
    /\ StepUnderstood
    /\ GridCount(QStart, QStop, QStep) >= 2
    /\ GridCount(QStart, QStop, QStep) <= MAX_SAMPLES_PER_CALL

\* C17: when the grid of the whole query has between 2 and
\* MAX_SAMPLES_PER_CALL samples and the service answers exactly, the run
\* sends exactly one request, for the original start and stop, and returns
\* that answer's k timestamps and 6k vector values without error.
C17_SingleCallDelegation ==
    (pc = "done" /\ FitsOneCall /\ AllExact)
        => /\ Len(ReqLog) = 1
           /\ WindowOf(ReqLog[1]) = [s |-> query.start, e |-> query.stop]
           /\ outcome.kind = "returned"
           /\ outcome.t = SingleCall.t
           /\ outcome.pv = SingleCall.pv
           /\ Len(outcome.pv) = 6 * Len(outcome.t)

\* Each timestamp of ts exceeds its predecessor by more than 1e-10 day.
StrictlyIncreasing(ts) == \A k \in 1..(Len(ts) - 1) : ts[k + 1] - ts[k] > TOL

\* Every window result the fetcher returned was strictly increasing.
WindowResultsIncreasing ==
    \A k \in DOMAIN fetched : StrictlyIncreasing(fetched[k].t)

\* C18: when every window result is strictly increasing, a series that
\* horizons_vectors_chunked returns has strictly increasing timestamps
\* (by more than 1e-10 day) and 6 vector values per timestamp; a run whose
\* assembled series is not of this kind ends with an error instead.
C18_FinalSeriesCoherent ==
    (Returned /\ ProperQuery /\ WindowResultsIncreasing)
        => /\ StrictlyIncreasing(outcome.t)
           /\ Len(outcome.pv) = 6 * Len(outcome.t)

(***************************************************************************)
(* The loop of a main over the major bodies: every body's series is        *)
(* fetched, its time list is compared with the first body's, and the       *)
(* multi-body dataset is written after the loop.                           *)
(***************************************************************************)
MaxBodies == 3
GridLen == 3

\* MAJOR_BODIES / DATASETS["planets_5d"]["objects"]: the names, in order.
MAJOR_BODIES ==
    <<"Sun", "Mercury", "Venus", "Earth", "Mars", "Jupiter", "Saturn",
      "Uranus", "Neptune">>
Bodies == SubSeq(MAJOR_BODIES, 1, Min(MaxBodies, Len(MAJOR_BODIES)))

Mains == {"generate_ephemeris", "juno", "bennu"}

Abs(x) == IF x >= 0 THEN x ELSE -x

\* The time list of the exact grid, and the lists a fetch may return: the
\* grid, the grid with one timestamp moved (by 1e-10 day, or by more), the
\* grid without its last sample, and the grid with one sample more.
GridTimes == [j \in 1..GridLen |-> jd((j - 1) * 60)]
Shifts == {-(2 * TOL), -TOL, TOL, 2 * TOL}
TimeLists ==
    {GridTimes}
    \cup {[GridTimes EXCEPT ![j] = @ + d] : j \in 1..GridLen, d \in Shifts}
    \cup {SubSeq(GridTimes, 1, GridLen - 1), Append(GridTimes, jd(GridLen * 60))}

\* What the fetch of one body gives main: a series, or an error.
Fetches == [kind : {"series"}, t : TimeLists] \cup {[kind |-> "raise", t |-> <<>>]}

GridMismatch(what, name) == [type |-> "RuntimeError", what |-> what, name |-> name]
GridOk == [type |-> "none", what |-> "", name |-> ""]

\* generate_ephemeris.py: elif len(t_jd) != len(t_ref): raise
grid_check_multi(t_ref, t, name) ==
    IF Len(t) # Len(t_ref)
    THEN GridMismatch("Time grid mismatch in multi ephemeris.", "")
    ELSE GridOk

\* juno, bennu: the lengths, then for a, b in zip(t, t_ref): abs(a - b) > 1e-10
grid_check_pairwise(what, t_ref, t, name) ==
    IF Len(t) # Len(t_ref)
    THEN GridMismatch(what, name)
    ELSE IF \E j \in 1..Len(t) : Abs(t[j] - t_ref[j]) > TOL
         THEN GridMismatch(what, name)
         ELSE GridOk

grid_check_juno(t_ref, t, name) == grid_check_pairwise("Time grid mismatch: ", t_ref, t, name)
grid_check_bennu(t_ref, t, name) == grid_check_pairwise("Time grid mismatch for ", t_ref, t, name)

InitGrid ==
    /\ SchedIdle
    /\ rq = RqIdle
    /\ interp = InterpIdle
    /\ parser = ParserIdle
    /\ iss = IssIdle
    /\ grid \in {[pc |-> "loop", main |-> m, k |-> 1, t_ref |-> <<>>,
                  has_ref |-> FALSE, objects |-> <<>>, got |-> <<>>,
                  sleeps |-> 0, err |-> GridOk, written |-> FALSE] : m \in Mains}

\* One iteration of the loop for the body numbered grid.k: fetch, compare with
\* the reference, store the body; c is the result of the script's comparison
\* of the fetched list with the reference, pause the sleeps of the iteration.
MainIteration(f, c, pause) ==
    LET name == Bodies[grid.k]
        got == Append(grid.got, [name |-> name, kind |-> f.kind, t |-> f.t])
    IN  IF f.kind = "raise"
        THEN grid' = [grid EXCEPT !.pc = "done", !.got = got,
                                  !.err = [type |-> "fetch", what |-> "", name |-> ""]]
        ELSE IF ~grid.has_ref
        THEN grid' = [grid EXCEPT !.t_ref = f.t, !.has_ref = TRUE, !.got = got,
                                  !.objects = Append(@, name), !.k = @ + 1,
                                  !.sleeps = @ + pause]
        ELSE IF c # GridOk
        THEN grid' = [grid EXCEPT !.pc = "done", !.got = got, !.err = c]
        ELSE grid' = [grid EXCEPT !.got = got, !.objects = Append(@, name),
                                  !.k = @ + 1, !.sleeps = @ + pause]

\* generate_ephemeris.py main, lines 165-173.
MainMulti ==
    /\ grid.pc = "loop" /\ grid.main = "generate_ephemeris" /\ grid.k <= Len(Bodies)
    /\ \E f \in Fetches : MainIteration(f, grid_check_multi(grid.t_ref, f.t, Bodies[grid.k]), 1)
    /\ UNCHANGED <<sched, rq, interp, parser, iss>>

\* generate_ephemeris_juno.py main, lines 388-400.
MainJuno ==
    /\ grid.pc = "loop" /\ grid.main = "juno" /\ grid.k <= Len(Bodies)
    /\ \E f \in Fetches : MainIteration(f, grid_check_juno(grid.t_ref, f.t, Bodies[grid.k]), 0)
    /\ UNCHANGED <<sched, rq, interp, parser, iss>>

\* generate_ephemeris_bennu.py main, lines 331-342.
MainBennu ==
    /\ grid.pc = "loop" /\ grid.main = "bennu" /\ grid.k <= Len(Bodies)
    /\ \E f \in Fetches : MainIteration(f, grid_check_bennu(grid.t_ref, f.t, Bodies[grid.k]), 0)
    /\ UNCHANGED <<sched, rq, interp, parser, iss>>

\* After the loop: write_json of the dataset with t_jd = t_ref and the objects.
WriteDataset ==
    /\ grid.pc = "loop" /\ grid.k > Len(Bodies)
    /\ grid' = [grid EXCEPT !.pc = "done", !.written = TRUE]
    /\ UNCHANGED <<sched, rq, interp, parser, iss>>

NextGrid ==
    \/ MainMulti
    \/ MainJuno
    \/ MainBennu
    \/ WriteDataset

SpecGrid == InitGrid /\ [][NextGrid]_vars

\* The first body's time list, the reference of the run.
RefTimes == grid.got[1].t

\* The time list t agrees with the reference: same length, pairwise within
\* 1e-10 day.
Agrees(t, ref) ==
    /\ Len(t) = Len(ref)
    /\ \A j \in 1..Len(t) : Abs(t[j] - ref[j]) <= TOL

\* C19: the multi-body dataset is written only if every body was fetched
\* and every body's time list has the length of the first body's list and
\* agrees with it pairwise within 1e-10 day; when all lists agree the
\* dataset is written.
C19_GridValidation ==
    (grid.pc = "done" /\ grid.err.type # "fetch")
        => (grid.written <=>
                /\ Len(grid.got) = Len(Bodies)
                /\ \A b \in DOMAIN grid.got : Agrees(grid.got[b].t, RefTimes))

\* The first body, in iteration order, whose list disagrees with the reference.
Violates(b) == b > 1 /\ grid.got[b].kind = "series" /\ ~Agrees(grid.got[b].t, RefTimes)
FirstViolation == CHOOSE b \in DOMAIN grid.got : Violates(b) /\ \A a \in 1..(b - 1) : ~Violates(a)

\* C20: when some fetched list disagrees with the reference, the run ends
\* with a grid-mismatch error that names the first disagreeing body, and
\* that body is the last one fetched.
C20_FirstViolationNamed ==
    (grid.pc # "idle" /\ \E b \in DOMAIN grid.got : Violates(b))
        => /\ grid.pc = "done"
           /\ ~grid.written
           /\ grid.err.type = "RuntimeError"
           /\ grid.err.name = Bodies[FirstViolation]
           /\ Len(grid.got) = FirstViolation

(***************************************************************************)
(* The sample parsers row by row.  A block is a sequence of lines; a line  *)
(* is the sequence of its fields: the parts between commas when the line   *)
(* holds a comma, its whitespace-separated tokens otherwise.  A field is   *)
(* [k, v]: k tells how the text of the field is spelled, v the number it   *)
(* reads as.                                                               *)
(*   "num"    2458849.5        a number that starts with a digit           *)
(*   "neg"    -1.5E+08         a number that starts with a sign            *)
(*   "dexp"   1.5D+08          a number with a D exponent marker           *)
(*   "date"   2020-Jan-01      starts with a digit, is not a number        *)
(*   "word"   A.D.             neither                                     *)
(*   "empty"                   nothing between two commas                  *)
(***************************************************************************)
MaxRows == 3

Tok(k, v) == [k |-> k, v |-> v]

\* re.match(r"^\d", s)
starts_with_digit(tok) == tok.k \in {"num", "dexp", "date"}

\* float(s) does not raise ValueError
float_ok(tok) == tok.k \in {"num", "neg"}

\* float(s.replace("D", "E").replace("d", "E")) does not raise ValueError
float_D_ok(tok) == tok.k \in {"num", "neg", "dexp"}

NoSample == [ok |-> FALSE, jd |-> 0, vals |-> <<>>]
Sample(t_jd, vals) == [ok |-> TRUE, jd |-> t_jd, vals |-> vals]

\* while parts and parts[-1] == "": parts.pop()
RECURSIVE DropTrailingEmpty(_)
DropTrailingEmpty(parts) ==
    IF parts # <<>> /\ parts[Len(parts)].k = "empty"
    THEN DropTrailingEmpty(SubSeq(parts, 1, Len(parts) - 1))
    ELSE parts

\* parts[a:b] of a Python list
Slice(parts, a, b) == SubSeq(parts, a + 1, Min(b, Len(parts)))

\* The six fields nums read as vector values, when all six are numbers.
VectorOf(first, nums) ==
    IF Len(nums) < 6 \/ \E j \in 1..Len(nums) : ~float_D_ok(nums[j])
    THEN NoSample
    ELSE Sample(first.v, [j \in 1..6 |-> nums[j].v])

\* A comma row that takes every leading number as the timestamp.
csv_row_no_digit_check(parts0) ==
    LET parts == DropTrailingEmpty(parts0)
    IN  IF parts = <<>> THEN NoSample
        ELSE IF ~float_ok(parts[1]) THEN Sample(parts[1].v, [j \in 1..6 |-> 0])
        ELSE LET start_idx == IF Len(parts) >= 8 THEN 2 ELSE 1
             IN  VectorOf(parts[1], Slice(parts, start_idx, start_idx + 6))

\* juno 218-242, explorer_one 123-144: the branch  if "," in line
csv_row(parts0) ==
    LET parts == DropTrailingEmpty(parts0)
    IN  IF parts = <<>> THEN NoSample
        ELSE IF ~starts_with_digit(parts[1]) THEN NoSample
        ELSE IF ~float_ok(parts[1]) THEN NoSample
        ELSE LET start_idx == IF Len(parts) >= 8 THEN 2 ELSE 1
             IN  VectorOf(parts[1], Slice(parts, start_idx, start_idx + 6))

\* juno 244-256: the whitespace branch, the vector is the last 6 tokens
ws_row_juno(fields) ==
    IF ~starts_with_digit(fields[1]) THEN NoSample
    ELSE IF Len(fields) < 7 THEN NoSample
    ELSE IF ~float_ok(fields[1]) THEN NoSample
    ELSE VectorOf(fields[1], SubSeq(fields, Len(fields) - 5, Len(fields)))

\* explorer_one 146-156: the whitespace branch, the vector is cols[1:7]
ws_row_explorer(cols) ==
    IF Len(cols) < 7 THEN NoSample
    ELSE IF ~starts_with_digit(cols[1]) THEN NoSample
    ELSE IF ~float_ok(cols[1]) THEN NoSample
    ELSE VectorOf(cols[1], Slice(cols, 1, 7))

\* One line of the loop of parse_vectors: blank lines are skipped.
row_sample_juno(row) ==
    IF row.f = <<>> THEN NoSample
    ELSE IF row.comma THEN csv_row(row.f)
    ELSE ws_row_juno(row.f)

row_sample_explorer(row) ==
    IF row.f = <<>> THEN NoSample
    ELSE IF row.comma THEN csv_row(row.f)
    ELSE ws_row_explorer(row.f)

\* bennu 139-165: comma rows of at least 8 parts only, the vector is parts[2:8]
row_sample_bennu(row) ==
    IF row.f = <<>> THEN NoSample
    ELSE IF ~row.comma THEN NoSample
    ELSE IF Len(row.f) < 8 THEN NoSample
    ELSE IF ~float_ok(row.f[1]) THEN NoSample
    ELSE VectorOf(row.f[1], Slice(row.f, 2, 8))

\* t.append(jd); pv.extend([x, y, z, vx, vy, vz]) over the rows that gave a
\* sample, in the order of the lines.
collect(rs) ==
    LET good == SelectSeq(rs, LAMBDA r : r.ok)
    IN  [t |-> [j \in 1..Len(good) |-> good[j].jd],
         pv |-> [j \in 1..(6 * Len(good)) |-> good[(j - 1) \div 6 + 1].vals[((j - 1) % 6) + 1]]]

\* A final check that lets a series of one sample pass.
check_samples_min_one(c) ==
    IF Len(c.t) < 1 \/ Len(c.pv) # Len(c.t) * 6
    THEN [ok |-> FALSE, err |-> ParseFailure]
    ELSE [ok |-> TRUE, t |-> c.t, pv |-> c.pv]

\* if len(t) < 2 or len(pv) != len(t) * 6: raise RuntimeError(...)
check_samples(c) ==
    IF Len(c.t) < 2 \/ Len(c.pv) # Len(c.t) * 6
    THEN [ok |-> FALSE, err |-> ParseFailure]
    ELSE [ok |-> TRUE, t |-> c.t, pv |-> c.pv]

\* generate_ephemeris.py 129-132: only the number of samples is checked
check_samples_multi(c) ==
    IF Len(c.t) < 2
    THEN [ok |-> FALSE, err |-> RuntimeError("Parsed too few samples from Horizons output.", None)]
    ELSE [ok |-> TRUE, t |-> c.t, pv |-> c.pv]

RowSamples(fn, block) ==
    [j \in 1..Len(block) |->
        CASE fn = "juno" -> row_sample_juno(block[j])
          [] fn = "explorer_one" -> row_sample_explorer(block[j])
          [] fn = "bennu" -> row_sample_bennu(block[j])]

parse_vectors_juno(block) == check_samples(collect(RowSamples("juno", block)))
parse_vectors_explorer(block) == check_samples(collect(RowSamples("explorer_one", block)))
parse_vectors_bennu(block) == check_samples(collect(RowSamples("bennu", block)))

\* generate_ephemeris.py 116-132: ms are the matches of ROW_RE in the
\* flattened block, each with its seven captured numbers.
horizons_vectors_multi(ms) == check_samples_multi(collect(ms))

\* The fields of line p: the timestamp reads as 10p, the vector as
\* 10p+1 .. 10p+6, further columns as 10p+7 .. 10p+9.
JD(p) == Tok("num", 10 * p)
CAL(p) == Tok("word", 0)
V(p, c) == Tok(IF c % 2 = 0 THEN "neg" ELSE "num", 10 * p + c)
Vec(p) == [c \in 1..6 |-> V(p, c)]
Extra(p) == <<V(p, 7), V(p, 8), V(p, 9)>>
Empty == Tok("empty", 0)

RowTags ==
    {"blank", "csv8", "csv8c", "csv7", "csv7c", "csv11", "csv8d", "csvhead",
     "csvbad", "csvneg", "csvdate", "csvshort", "ws7", "wscal", "ws10", "wsword", "wsshort"}

\* The line with tag tg at position p of a block.
RowAt(tg, p) ==
    CASE tg = "blank" -> [tag |-> tg, comma |-> FALSE, f |-> <<>>]
      [] tg = "csv8" -> [tag |-> tg, comma |-> TRUE, f |-> <<JD(p), CAL(p)>> \o Vec(p)]
      [] tg = "csv8c" -> [tag |-> tg, comma |-> TRUE, f |-> <<JD(p), CAL(p)>> \o Vec(p) \o <<Empty>>]
      [] tg = "csv7" -> [tag |-> tg, comma |-> TRUE, f |-> <<JD(p)>> \o Vec(p)]
      [] tg = "csv7c" -> [tag |-> tg, comma |-> TRUE, f |-> <<JD(p)>> \o Vec(p) \o <<Empty>>]
      [] tg = "csv11" -> [tag |-> tg, comma |-> TRUE, f |-> <<JD(p), CAL(p)>> \o Vec(p) \o Extra(p)]
      [] tg = "csv8d" -> [tag |-> tg, comma |-> TRUE,
                          f |-> <<JD(p), CAL(p)>> \o [c \in 1..6 |-> Tok("dexp", 10 * p + c)]]
      [] tg = "csvhead" -> [tag |-> tg, comma |-> TRUE, f |-> <<Tok("word", 0), Tok("word", 0)>>]
      [] tg = "csvbad" -> [tag |-> tg, comma |-> TRUE,
                           f |-> <<JD(p), CAL(p), V(p, 1), V(p, 2), Tok("word", 0),
                                   V(p, 4), V(p, 5), V(p, 6)>>]
      [] tg = "csvneg" -> [tag |-> tg, comma |-> TRUE, f |-> <<Tok("neg", 10 * p), CAL(p)>> \o Vec(p)]
      [] tg = "csvdate" -> [tag |-> tg, comma |-> TRUE, f |-> <<Tok("date", 0), CAL(p)>> \o Vec(p)]
      [] tg = "csvshort" -> [tag |-> tg, comma |-> TRUE, f |-> <<JD(p), CAL(p), V(p, 1), V(p, 2), V(p, 3)>>]
      [] tg = "ws7" -> [tag |-> tg, comma |-> FALSE, f |-> <<JD(p)>> \o Vec(p)]
      [] tg = "wscal" -> [tag |-> tg, comma |-> FALSE,
                          f |-> <<JD(p), Tok("word", 0), Tok("date", 0), Tok("date", 0)>> \o Vec(p)]
      [] tg = "ws10" -> [tag |-> tg, comma |-> FALSE, f |-> <<JD(p)>> \o Vec(p) \o Extra(p)]
      [] tg = "wsword" -> [tag |-> tg, comma |-> FALSE,
                           f |-> <<Tok("word", 0), Tok("word", 0), V(p, 1), Tok("word", 0)>>]
      [] tg = "wsshort" -> [tag |-> tg, comma |-> FALSE, f |-> <<JD(p), V(p, 1), V(p, 2)>>]

\* The blocks given to a parser: up to MaxRows lines.
TagLists == UNION {[1..n -> RowTags] : n \in 0..MaxRows}
BlockOf(tags) == [p \in 1..Len(tags) |-> RowAt(tags[p], p)]

\* The matches ROW_RE finds in a block: up to MaxRows of them.
Matches == {[p \in 1..n |-> Sample(10 * p, [c \in 1..6 |-> 10 * p + c])] : n \in 0..MaxRows}

ParseFns == {"juno", "explorer_one", "bennu"}

Pending == [ok |-> FALSE, err |-> None]

InitParse ==
    /\ SchedIdle
    /\ rq = RqIdle
    /\ interp = InterpIdle
    /\ grid = GridIdle
    /\ iss = IssIdle
    /\ parser \in
         {[pc |-> "given", fn |-> f, block |-> BlockOf(tags), rows |-> <<>>, out |-> Pending] :
              f \in ParseFns, tags \in TagLists}
         \cup {[pc |-> "given", fn |-> "generate_ephemeris", block |-> <<>>, rows |-> ms,
                out |-> Pending] : ms \in Matches}

ApplyParseJuno ==
    /\ parser.pc = "given" /\ parser.fn = "juno"
    /\ parser' = [parser EXCEPT !.pc = "done", !.rows = RowSamples("juno", parser.block),
                                !.out = parse_vectors_juno(parser.block)]
    /\ UNCHANGED <<sched, rq, interp, grid, iss>>

ApplyParseExplorer ==
    /\ parser.pc = "given" /\ parser.fn = "explorer_one"
    /\ parser' = [parser EXCEPT !.pc = "done", !.rows = RowSamples("explorer_one", parser.block),
                                !.out = parse_vectors_explorer(parser.block)]
    /\ UNCHANGED <<sched, rq, interp, grid, iss>>

ApplyParseBennu ==
    /\ parser.pc = "given" /\ parser.fn = "bennu"
    /\ parser' = [parser EXCEPT !.pc = "done", !.rows = RowSamples("bennu", parser.block),
                                !.out = parse_vectors_bennu(parser.block)]
    /\ UNCHANGED <<sched, rq, interp, grid, iss>>

ApplyParseMulti ==
    /\ parser.pc = "given" /\ parser.fn = "generate_ephemeris"
    /\ parser' = [parser EXCEPT !.pc = "done", !.out = horizons_vectors_multi(parser.rows)]
    /\ UNCHANGED <<sched, rq, interp, grid, iss>>

NextParse ==
    \/ ApplyParseJuno
    \/ ApplyParseExplorer
    \/ ApplyParseBennu
    \/ ApplyParseMulti

SpecParse == InitParse /\ [][NextParse]_vars

\* Well-formed rows: a timestamp, a calendar label or none, six vector
\* values (E or D exponents), further columns or a trailing comma or none,
\* comma-delimited; a timestamp and six vector values, whitespace-delimited.
CommaWellFormed == {"csv8", "csv8c", "csv7", "csv7c", "csv11", "csv8d"}
WellFormedTags == CommaWellFormed \cup {"ws7"}

\* Blank lines and rows whose first token is not a number.
SkippedTags == {"blank", "csvhead", "csvdate", "wsword"}

\* Positions of the well-formed rows of the parsed block, in input order.
WellFormedRows == SelectSeq([p \in 1..Len(parser.block) |-> p],
                            LAMBDA p : parser.block[p].tag \in WellFormedTags)

ParsedBy(fns) == parser.pc = "done" /\ parser.fn \in fns

\* C21: for a block of well-formed rows (comma, whitespace or both), blank
\* lines and rows without a leading number, with at least 2 well-formed
\* rows, parse_vectors returns one timestamp per well-formed row in input
\* order and 6 vector values per timestamp.
C21_ParsesEveryWellFormedRow ==
    (/\ ParsedBy({"juno", "bennu"})
     /\ \A p \in DOMAIN parser.block : parser.block[p].tag \in WellFormedTags \cup SkippedTags
     /\ Len(WellFormedRows) >= 2)
        => /\ parser.out.ok
           /\ parser.out.t = [j \in 1..Len(WellFormedRows) |-> 10 * WellFormedRows[j]]
           /\ Len(parser.out.pv) = 6 * Len(parser.out.t)

\* The samples the parser extracted from the rows (or matches) it was given.
Extracted == SelectSeq(parser.rows, LAMBDA r : r.ok)

\* C22: the parser fails with a parse error whenever fewer than 2 samples
\* are extracted; a series it returns has at least 2 timestamps and 6 vector
\* values per timestamp.
C22_TooFewSamplesFail ==
    parser.pc = "done"
        => /\ Len(Extracted) < 2 => (~parser.out.ok /\ parser.out.err.type = "RuntimeError")
           /\ parser.out.ok => /\ Len(parser.out.t) >= 2
                               /\ Len(parser.out.pv) = 6 * Len(parser.out.t)

\* A block with exactly one valid row was given to juno's parser and refused.
C22_Witness ==
    /\ ParsedBy({"juno"})
    /\ Len(parser.block) = 3
    /\ Len(Extracted) = 1
    /\ ~parser.out.ok

\* C23: from a well-formed comma row the parser takes the fields 3..8 when
\* the row has 8 or more fields, and the 6 fields after the timestamp when it
\* has fewer (no calendar-label column); the sample of the row at line p is
\* its timestamp with its x, y, z, vx, vy, vz in that order.
C23_VectorFieldSelection ==
    ParsedBy({"juno", "bennu"})
        => \A p \in DOMAIN parser.block :
               parser.block[p].tag \in CommaWellFormed
                   => parser.rows[p] = Sample(10 * p, [c \in 1..6 |-> 10 * p + c])

\* The first token of the line reads as a number.
FirstTokenIsNumber(row) == row.f # <<>> /\ float_ok(row.f[1])

\* The parsed block without its blank lines and without the rows whose
\* first token is not a number.
OtherRows == SelectSeq(parser.block, FirstTokenIsNumber)

\* C24: a blank line or a row whose first token does not parse as a number
\* gives no sample, and the result of the parser (the series, or the
\* failure) is the one it gives for the block without these lines.
C24_SkipsRowsWithoutNumber ==
    ParsedBy({"juno", "explorer_one"})
        => /\ \A p \in DOMAIN parser.block :
                  ~FirstTokenIsNumber(parser.block[p]) => ~parser.rows[p].ok
           /\ parser.out = check_samples(collect(RowSamples(parser.fn, OtherRows)))

\* juno's parser returned the samples of lines 1 and 3 of a block whose
\* line 2 starts with a word.
C24_Witness ==
    /\ ParsedBy({"juno"})
    /\ Len(parser.block) = 3
    /\ parser.block[2].tag = "csvhead"
    /\ parser.out.ok
    /\ parser.out.t = <<10, 30>>

\* The six buffer entries at positions 6i .. 6i+5 (counting from 0) of
\* sample i of the accumulated series.
SampleVec(k) == [c \in 1..6 |-> all_pv[6 * (k - 1) + c]]

\* C25: at every point of a run of horizons_vectors_chunked the accumulated
\* vector list is exactly 6 times as long as the accumulated timestamp list,
\* and the six entries of sample i are the x, y, z, vx, vy, vz of one row of
\* an answer, the row with the timestamp of sample i.
C25_BufferInvariant ==
    /\ Len(all_pv) = 6 * Len(all_t)
    /\ \A k \in DOMAIN all_t :
           /\ \E v \in {0, 1} : SampleVec(k) = RowVec(SampleVec(k)[1][1], v)
           /\ Abs(SampleVec(k)[1][1] - all_t[k]) <= JD_ULP

\* Two windows were merged and the shared boundary sample was dropped.
C25_Witness ==
    /\ script = "juno"
    /\ Len(fetched) = 2
    /\ Len(all_t) = Len(fetched[1].t) + Len(fetched[2].t) - 1
    /\ Len(all_t) >= 4

\* Request k was answered with a block the parser accepted.
Fetched(k) == ReqLog[k].out \in BlockTags /\ ~ParseFailed(ReqLog[k])

\* The answer to request k has no markers and discloses a trailing limit
\* that clips the stop of the window to a point inside it.
StopClipped(k) ==
    /\ ReqLog[k].out = "nomarkers"
    /\ FirstRequest(k)
    /\ ReqLog[k].msg.phrase = "after" /\ ReqLog[k].msg.wf
    /\ WinStart(ReqLog[k]) < ReqLog[k].msg.date - 1
    /\ ReqLog[k].msg.date - 1 < WinStop(ReqLog[k])

\* The window after request k starts at the stop of the window of request k.
NextStartsAtStopOf(k) == k < Len(ReqLog) => ReqLog[k + 1].s = ReqLog[k].e

FirstReq == ReqLog[1]
LastReq == ReqLog[Len(ReqLog)]
SeveralWindows == Len(ReqLog) >= 2 /\ FirstReq.e # LastReq.e
C27_SignatureSpansSeries ==
    (Returned /\ ProperQuery /\ AllExact /\ Len(ReqLog) >= 1) =>
        /\ outcome.sig # EmptySig
        /\ outcome.sig.start = FirstReq.s
        /\ outcome.sig.stop = LastReq.e

\* The same statement restricted to series that one window produced.
C27_SingleWindowSignature ==
    (Returned /\ ProperQuery /\ AllExact /\ Len(ReqLog) = 1) =>
        /\ outcome.sig # EmptySig
        /\ outcome.sig.start = FirstReq.s
        /\ outcome.sig.stop = LastReq.e

\* ---------------------------------------------------------------------
\* C28: for a step of an integer count n and a unit among day, hour and
\* minute the script's step in seconds is positive and equals n*86400,
\* n*3600 or n*60; a step that does not resolve to a positive number of
\* seconds is rejected before any window is computed.
UnitSeconds(u) == CASE u = "d" -> 86400 [] u = "h" -> 3600 [] OTHER -> 60

\* The step in seconds the running script computes for the query.
ScriptStepSeconds ==
    CASE script = "juno" -> step_seconds_juno(query.step)
      [] script = "explorer_one" -> step_seconds_explorer(query.step)
      [] script = "bennu" -> step_sec_bennu(query.step)

StepResolves ==
    (query.step.u \in {"d", "h", "m"} /\ query.step.n > 0 /\ pc # "start") =>
        /\ ScriptStepSeconds > 0
        /\ ScriptStepSeconds = query.step.n * UnitSeconds(query.step.u)

StepRejected ==
    ScriptStepSeconds <= 0 =>
        /\ ReqLog = <<>>
        /\ pc \notin {"http", "direct"}
        /\ pc = "done" => outcome.kind = "raised"

C28_StepSeconds == StepResolves /\ StepRejected

\* The first half for explorer_one and bennu, which know the hour.
C28_StepResolvesWithHours == script # "juno" => StepResolves

\* ---------------------------------------------------------------------
\* C29: horizons_vectors_chunked terminates for every query and every
\* behaviour of the service: each iteration of the window loop, the one
\* that handles StartTooEarly included, strictly increases the cursor or
\* ends the call, so the requests of one query are bounded.
IterationEnds == pc = "http" /\ pc' # "http"
C29_EveryIterationAdvances ==
    [][IterationEnds => (pc' = "done" \/ cur' > cur)]_vars

\* The same statement for the calls whose step is a positive number of
\* seconds.
C29_PositiveStepAdvances ==
    [][(IterationEnds /\ ScriptStepSeconds > 0) => (pc' = "done" \/ cur' > cur)]_vars

\* ---------------------------------------------------------------------
\* C30: throughout horizons_vectors_chunked the cursor stays within
\* [query start, query stop] and never moves backwards, also when a
\* StartTooEarly error replaces the cursor by the disclosed earliest date.
InLoop == pc \in {"loop", "http"}
CursorInQuery == (InLoop /\ QStart <= QStop) => (QStart <= cur /\ cur <= QStop)
CursorNeverBack == [][pc # "start" => cur' >= cur]_vars
C30_CursorInvariant == []CursorInQuery /\ CursorNeverBack

\* juno fetches a later window: the cursor has left the query start.
C30_Witness ==
    /\ script = "juno" /\ pc = "http"
    /\ QStart < cur /\ cur < QStop
    /\ Len(fetched) >= 1

\* The handler of StartTooEarly (juno lines 341-344) has replaced the cursor.
StartTooEarlyHandled ==
    /\ script = "juno" /\ pc = "loop"
    /\ Len(ReqLog) >= 1 /\ LastReq.out = "error"

\* ---------------------------------------------------------------------
\* C31: every window the chunk scheduler requests spans at least one full
\* step, so that the exact answer holds at least 2 samples and passes the
\* parser's minimum; in particular the last window of a query whose span is
\* not a multiple of the chunk span is never shorter than one step.
SpansOneStep(ev) == WinStop(ev) - WinStart(ev) >= QStep
C31_WindowSpansOneStep ==
    (ProperQuery /\ StepUnderstood /\ QStop - QStart >= QStep) =>
        \A k \in DOMAIN ReqLog :
            /\ SpansOneStep(ReqLog[k])
            /\ GridCount(WinStart(ReqLog[k]), WinStop(ReqLog[k]), QStep) >= 2

\* The same statement for the queries that span at least one step and
\* whose span is a multiple of the chunk span.
C31_WhenSpanIsMultiple ==
    (ProperQuery /\ StepUnderstood /\ QStop - QStart >= QStep
     /\ (QStop - QStart) % QSpan = 0) =>
        \A k \in DOMAIN ReqLog : SpansOneStep(ReqLog[k])

\* ---------------------------------------------------------------------
\* C32: in a run without failures, for a query with start < stop,
\* horizons_vectors_chunked of juno and of explorer_one requests exactly
\* ceil((stop - start) / max_span_seconds) windows, each window exactly
\* once and in increasing time order.
FailureFree == pc = "done" /\ nfail = 0 /\ AllExact

\* The k-th window of the query, as times of the service.
KthStart(k) == QStart + (k - 1) * QSpan
KthStop(k) == Min(QStart + k * QSpan, QStop)

ExactlyTheWindows ==
    /\ Len(ReqLog) = NumWindows
    /\ \A k \in DOMAIN ReqLog :
          /\ WinStart(ReqLog[k]) = KthStart(k)
          /\ WinStop(ReqLog[k]) = KthStop(k)
    /\ \A k \in 1..(Len(ReqLog) - 1) :
          WinStart(ReqLog[k]) < WinStart(ReqLog[k + 1])

C32_WhenReturned ==
    (script \in {"juno", "explorer_one"} /\ FailureFree /\ ProperQuery /\ StepUnderstood
     /\ outcome.kind = "returned")
        => ExactlyTheWindows
C32_Juno ==
    (script = "juno" /\ FailureFree /\ ProperQuery /\ StepUnderstood)
        => ExactlyTheWindows

\* ---------------------------------------------------------------------
\* C33: for a query with start >= stop, horizons_vectors_chunked sends no
\* request to the service and fails with an error; it never returns an
\* empty or single-sample series.
DegenerateRange == QStart >= QStop
NoRequestAndError ==
    /\ ReqLog = <<>>
    /\ pc \notin {"http", "direct"}
    /\ pc = "done" => outcome.kind = "raised"
C33_DegenerateRange == DegenerateRange => NoRequestAndError

\* The same statement for juno and explorer_one.
C33_JunoExplorer ==
    (script \in {"juno", "explorer_one"} /\ DegenerateRange) => NoRequestAndError

\* ---------------------------------------------------------------------
\* C34: the duplicated parsers agree: for every block, parse_vectors of
\* juno and parse_vectors of explorer_one either both fail or both return
\* the same timestamps and the same vector values, also for
\* whitespace-delimited rows of more than 7 tokens.
SameResult(a, b) ==
    /\ a.ok = b.ok
    /\ a.ok => (a.t = b.t /\ a.pv = b.pv)

\* The result of the other of the two parsers for the parsed block.
OtherParser ==
    IF parser.fn = "juno" THEN parse_vectors_explorer(parser.block)
    ELSE parse_vectors_juno(parser.block)

ParsedByTwin == parser.pc = "done" /\ parser.fn \in {"juno", "explorer_one"}
C34_ParsersAgree == ParsedByTwin => SameResult(parser.out, OtherParser)

\* The same statement for the blocks without whitespace-delimited rows of
\* more than 7 tokens.
LongWhitespaceRow(row) == ~row.comma /\ Len(row.f) > 7
C34_WithoutLongWhitespaceRows ==
    (ParsedByTwin /\ \A p \in DOMAIN parser.block : ~LongWhitespaceRow(parser.block[p]))
        => SameResult(parser.out, OtherParser)

(***************************************************************************)
(* generate_iss_ephemeris.py: the propagation loop of main.                *)
(***************************************************************************)
\* STEP_SECONDS of the script
STEP_SECONDS == 60
\* The horizon in minutes (HORIZON_HOURS = 24 in the script: 1440 minutes).
HORIZON_MINUTES == 6

\* datetime.now(timezone.utc), in whole seconds
Nows == {0, 1, 59, 60, 90, 125}

\* Error codes sat.sgp4 returns with a sample: 0 is success.
SgpCodes == {0, 1, 6}

\* lines 82-86: while t <= end: samples.append(t); t += STEP_SECONDS
RECURSIVE samples_loop(_, _, _)
samples_loop(t, end, samples) ==
    IF t <= end THEN samples_loop(t + STEP_SECONDS, end, Append(samples, t))
    ELSE samples

\* build_samples: from now rounded down to the minute through the horizon
build_samples(now_utc) ==
    LET start == now_utc - (now_utc % 60)
        end == start + HORIZON_MINUTES * 60
    IN  samples_loop(start, end, <<>>)

\* The state vector sat.sgp4 computes for the instant dt: r[0..2], v[0..2].
Sgp4Vec(dt) == [c \in 1..6 |-> dt * 10 + c]
ZeroVec == [c \in 1..6 |-> 0]

\* pv[-6:]
LastSix(pv) == SubSeq(pv, Len(pv) - 5, Len(pv))

\* A loop body that adds nothing for a failed sample.
propagate_skip_failed(pv, e, dt) ==
    IF e # 0 THEN pv
    ELSE pv \o Sgp4Vec(dt)

\* lines 109-118: the vector list after the sample at dt, sgp4 returning e
propagate(pv, e, dt) ==
    IF e # 0
    THEN IF pv # <<>> THEN pv \o LastSix(pv) ELSE pv \o ZeroVec
    ELSE pv \o Sgp4Vec(dt)

InitIss ==
    /\ SchedIdle
    /\ rq = RqIdle
    /\ interp = InterpIdle
    /\ grid = GridIdle
    /\ parser = ParserIdle
    /\ iss \in {[pc |-> "start", now |-> n, samples_dt |-> <<>>, k |-> 0, t_jd |-> <<>>,
                  pv |-> <<>>, errs |-> <<>>, written |-> FALSE] : n \in Nows}

\* lines 98-102
IssBuildSamples ==
    /\ iss.pc = "start"
    /\ iss' = [iss EXCEPT !.pc = "loop", !.samples_dt = build_samples(iss.now)]
    /\ UNCHANGED <<sched, rq, interp, grid, parser>>

\* lines 104-118: one iteration of  for dt in samples_dt
IssSample(e) ==
    /\ iss.pc = "loop" /\ iss.k < Len(iss.samples_dt)
    /\ LET dt == iss.samples_dt[iss.k + 1]
       IN  iss' = [iss EXCEPT !.k = @ + 1,
                              !.t_jd = Append(@, jd(dt)),
                              !.pv = propagate(@, e, dt),
                              !.errs = Append(@, e)]
    /\ UNCHANGED <<sched, rq, interp, grid, parser>>

IssPropagate == \E e \in SgpCodes : IssSample(e)

\* lines 120-136: after the loop the payload with t_jd and pv is written
IssWrite ==
    /\ iss.pc = "loop" /\ iss.k = Len(iss.samples_dt)
    /\ iss' = [iss EXCEPT !.pc = "done", !.written = TRUE]
    /\ UNCHANGED <<sched, rq, interp, grid, parser>>

NextIss ==
    \/ IssBuildSamples
    \/ IssPropagate
    \/ IssWrite

SpecIss == InitIss /\ [][NextIss]_vars

\* ---------------------------------------------------------------------
\* C35: for any pattern of SGP4 per-sample errors, after the loop the
\* flattened vector list is exactly 6 times as long as the timestamp list,
\* which holds one strictly increasing timestamp per minute from the start
\* minute through the start plus the horizon, both included; a failed
\* sample carries the six values of the previous sample, or six zeros when
\* it is the first.
IssStart == iss.now - (iss.now % 60)
IssCount == (HORIZON_MINUTES * 60) \div STEP_SECONDS + 1
IssVec(k) == SubSeq(iss.pv, 6 * k - 5, 6 * k)
C35_IssSeries ==
    iss.pc = "done" =>
        /\ Len(iss.pv) = 6 * Len(iss.t_jd)
        /\ Len(iss.t_jd) = IssCount
        /\ \A k \in 1..Len(iss.t_jd) : iss.t_jd[k] = jd(IssStart + (k - 1) * 60)
        /\ iss.t_jd[Len(iss.t_jd)] = jd(IssStart + HORIZON_MINUTES * 60)
        /\ StrictlyIncreasing(iss.t_jd)
        /\ \A k \in 1..Len(iss.t_jd) :
              IF iss.errs[k] = 0 THEN IssVec(k) = Sgp4Vec(IssStart + (k - 1) * 60)
              ELSE IF k = 1 THEN IssVec(k) = ZeroVec
              ELSE IssVec(k) = IssVec(k - 1)

\* The loop has ended on a run whose first and last samples failed, with a
\* good sample followed by a failed one in between.
C35_Witness ==
    /\ iss.pc = "done" /\ iss.now % 60 # 0
    /\ iss.errs[1] # 0 /\ iss.errs[Len(iss.errs)] # 0
    /\ \E k \in 2..(Len(iss.errs) - 1) : iss.errs[k] = 0 /\ iss.errs[k + 1] # 0

====
